---- MODULE Spec2Model ----
(***************************************************************************)
(* A model of the Horst bytecode interpreter: the single-pass compiler     *)
(* (src/src/compiler.rs) lowering programs to bytecode, and the stack VM   *)
(* (src/src/vm.rs) executing it over the handle table of src/src/gc.rs.    *)
(*                                                                         *)
(* Representation.  Stack slots, frame bases, instruction pointers,        *)
(* constant indices and heap handles are 0-based as in the Rust code; the  *)
(* operator At reads a TLA+ sequence at a 0-based index.  HashMaps are     *)
(* functions whose DOMAIN is the key set.  f64 numbers are integers.       *)
(* The compiler is driven by the syntax tree of the program (what the      *)
(* Pratt parser recognises) instead of by tokens; every operator emits     *)
(* exactly the instructions, constants, locals and upvalues that the       *)
(* Parser method of the same name emits, in the same order.                *)
(* Error reporting and recovery of the parser are modelled on token        *)
(* streams (ParserSpec), the scanner of src/src/scanner.rs on source texts *)
(* (ScannerSpec); Spec is the driver with the compiler and the VM.         *)
(***************************************************************************)
EXTENDS Integers, Sequences, FiniteSets, TLC

VARIABLES
    status,         \* "start" | "compiled" | "running" | "done" | "exit64" | "exit65" |
                    \* "exit66" | "error" (VM::error, exit 1) | "panic" (a Rust panic)
    source,         \* index into Sources of the program given to the driver
    program,        \* Result<Function, ()> of VM::compile
    stack,          \* VM.stack
    frames,         \* VM.frames
    open_upvalues,  \* VM.open_upvalues
    objects,        \* VM.gc.objects (handle table)
    modules,        \* VM.modules
    last_module,    \* VM.last_module: None is << >>, Some(m) is <<m>>
    reads,          \* the files std::fs::read_to_string has read, in order
    runs,           \* the suspended callers of nested VM::run invocations: the
                    \* locals `frames` and `l` of the Print arm, and as history
                    \* the stack `before` the Print
    output,         \* lines written to stdout
    message,        \* the message of VM::error, or of the panic
    last,           \* the instruction executed last, with the stack before it
    parser,         \* the Parser compiling a token stream, and where compile is
    scanner,        \* the Scanner scanning a source text, and where scan_tokens is
    resolver,       \* the import being resolved by resolve_module, and its key
    chunk,          \* a Chunk being written, the lines given to write, the line found
    gc              \* a Gc, the handles alloc has returned and the outcome of a call

\* the variables of the driver and the VM
vm_vars == <<status, source, program, stack, frames, open_upvalues, objects,
             modules, last_module, reads, runs, output, message, last>>

vars == <<status, source, program, stack, frames, open_upvalues, objects,
          modules, last_module, reads, runs, output, message, last, parser, scanner,
          resolver, chunk, gc>>

At(s, i) == s[i + 1]

Last(s) == s[Len(s)]

Front(s) == SubSeq(s, 1, Len(s) - 1)

Truncate(s, n) == IF n < Len(s) THEN SubSeq(s, 1, n) ELSE s

EmptyMap == [x \in {} |-> 0]

Insert(m, key, v) == [x \in DOMAIN m \cup {key} |-> IF x = key THEN v ELSE m[x]]

-----------------------------------------------------------------------------
(* Values *)

Value_Number(n) == [t |-> "Number", n |-> n]

Value_String(s) == [t |-> "String", s |-> s]

Value_Boolean(b) == [t |-> "Boolean", b |-> b]

Value_Nil == [t |-> "Nil"]

Value_Function(f) == [t |-> "Function", function |-> f]

Value_NativeFunction(name) == [t |-> "NativeFunction", native |-> name]

Value_Class(ref) == [t |-> "Class", ref |-> ref]

Value_Instance(ref) == [t |-> "Instance", ref |-> ref]

Value_Closure(f, ups) == [t |-> "Closure", function |-> f, upvalues |-> ups]

Value_BoundMethod(receiver, f, ups) ==
    [t |-> "BoundMethod", receiver |-> receiver, function |-> f, upvalues |-> ups]

is_falsey(v) == v.t = "Nil" \/ (v.t = "Boolean" /\ ~v.b)

\* Display for Value: the text println! writes for a value
Display(v) ==
    CASE v.t = "Number" -> ToString(v.n)
      [] v.t = "String" -> v.s
      [] v.t = "Boolean" -> (IF v.b THEN "true" ELSE "false")
      [] v.t = "Nil" -> "nil"
      [] v.t = "Function" -> "<function>"
      [] v.t = "Closure" -> "<function>"
      [] v.t = "BoundMethod" -> "<function>"
      [] v.t = "NativeFunction" -> "<native fn>"
      [] v.t = "Class" -> "<class>"
      [] v.t = "Instance" -> "<class instance>"

Instr(op, a, b) == [op |-> op, a |-> a, b |-> b]

FunctionUpvalue(index, is_local) == [index |-> index, is_local |-> is_local]

Function_new(name, arity, module) ==
    [name |-> name, arity |-> arity, code |-> << >>, constants |-> << >>,
     upvalues |-> << >>, module |-> module]

-----------------------------------------------------------------------------
(* The compiler: src/src/compiler.rs *)

NoExpr == [k |-> "none"]

Local(name, depth) == [name |-> name, depth |-> depth, is_captured |-> FALSE]

Compiler_new(function_name, function_type, module) ==
    [function |-> Function_new(function_name, 0, module),
     function_type |-> function_type,
     locals |-> <<Local(IF function_type \in {"Method", "Initializer"}
                        THEN "this" ELSE "", 0)>>,
     scope_depth |-> 0]

Parser_new(module) ==
    [compilers |-> <<Compiler_new("script", "Script", module)>>,
     class_compilers |-> << >>,
     had_error |-> FALSE,
     module |-> module]

\* self.compiler: the innermost function compiler
Cur(P) == Last(P.compilers)

error(P) == [P EXCEPT !.had_error = TRUE]

emit(P, instruction) ==
    [P EXCEPT !.compilers[Len(P.compilers)].function.code = Append(@, instruction)]

make_constant(P, value) ==
    [P EXCEPT !.compilers[Len(P.compilers)].function.constants = Append(@, value)]

\* the index Chunk::add_constant returned for the constant added last
ConstantIndex(P) == Len(Cur(P).function.constants) - 1

identifier_constant(P, name) == make_constant(P, Value_String(name))

\* a resolve_local that takes the outermost local of the name
Compiler_resolve_local_outermost(c, name) ==
    LET hits == {i \in 1..Len(c.locals) : c.locals[i].name = name}
        low == CHOOSE i \in hits : \A j \in hits : i <= j
    IN  IF hits = {}
        THEN [found |-> FALSE, index |-> 0, error |-> FALSE]
        ELSE [found |-> TRUE, index |-> low - 1, error |-> c.locals[low].depth = -1]

Compiler_resolve_local(c, name) ==
    LET hits == {i \in 1..Len(c.locals) : c.locals[i].name = name}
        top == CHOOSE i \in hits : \A j \in hits : j <= i
    IN  IF hits = {}
        THEN [found |-> FALSE, index |-> 0, error |-> FALSE]
        ELSE [found |-> TRUE, index |-> top - 1, error |-> c.locals[top].depth = -1]

\* an add_upvalue that appends an entry whatever the table holds
add_upvalue_appending(c, index, is_local) ==
    [compiler |-> [c EXCEPT !.function.upvalues = Append(@, FunctionUpvalue(index, is_local))],
     index |-> Len(c.function.upvalues)]

add_upvalue(c, index, is_local) ==
    LET same == {i \in 1..Len(c.function.upvalues) :
                    /\ c.function.upvalues[i].index = index
                    /\ c.function.upvalues[i].is_local = is_local}
    IN  IF same # {}
        THEN [compiler |-> c, index |-> (CHOOSE i \in same : \A j \in same : i <= j) - 1]
        ELSE [compiler |-> [c EXCEPT !.function.upvalues =
                                        Append(@, FunctionUpvalue(index, is_local))],
              index |-> Len(c.function.upvalues)]

RECURSIVE Compiler_resolve_upvalue(_, _, _)
\* cs: the chain of function compilers, outermost first; n: the one resolving
Compiler_resolve_upvalue(cs, n, name) ==
    IF n = 1
    THEN [compilers |-> cs, found |-> FALSE, index |-> 0, error |-> FALSE]
    ELSE LET l == Compiler_resolve_local(cs[n - 1], name)
         IN  IF l.found
             THEN LET cs1 == [cs EXCEPT ![n - 1].locals[l.index + 1].is_captured = TRUE]
                      a == add_upvalue(cs1[n], l.index, TRUE)
                  IN  [compilers |-> [cs1 EXCEPT ![n] = a.compiler],
                       found |-> TRUE, index |-> a.index, error |-> l.error]
             ELSE LET r == Compiler_resolve_upvalue(cs, n - 1, name)
                  IN  IF r.found
                      THEN LET a == add_upvalue(r.compilers[n], r.index, FALSE)
                           IN  [compilers |-> [r.compilers EXCEPT ![n] = a.compiler],
                                found |-> TRUE, index |-> a.index, error |-> r.error]
                      ELSE r

is_local_declared(c, name) ==
    \E i \in 1..Len(c.locals) :
        /\ c.locals[i].name = name
        /\ \A j \in i..Len(c.locals) :
              ~(c.locals[j].depth # -1 /\ c.locals[j].depth < c.scope_depth)

add_local(P, name) ==
    [P EXCEPT !.compilers[Len(P.compilers)].locals = Append(@, Local(name, -1))]

declare_variable(P, name) ==
    IF Cur(P).scope_depth = 0
    THEN P
    ELSE add_local(IF is_local_declared(Cur(P), name) THEN error(P) ELSE P, name)

mark_initialized(P) ==
    IF Cur(P).scope_depth = 0
    THEN P
    ELSE [P EXCEPT !.compilers[Len(P.compilers)].locals[Len(Cur(P).locals)].depth =
                        Cur(P).scope_depth]

define_variable(P, index) ==
    IF Cur(P).scope_depth > 0
    THEN mark_initialized(P)
    ELSE emit(P, Instr("DefineGlobal", index, 0))

\* parse_variable: the parser state after it; ParseVariableIndex: what it returns
parse_variable(P, name) ==
    LET P1 == declare_variable(P, name)
    IN  IF Cur(P1).scope_depth > 0 THEN P1 ELSE identifier_constant(P1, name)

ParseVariableIndex(P1) == IF Cur(P1).scope_depth > 0 THEN 0 ELSE ConstantIndex(P1)

begin_scope(P) == [P EXCEPT !.compilers[Len(P.compilers)].scope_depth = @ + 1]

RECURSIVE end_scope_locals(_, _)
\* the loop of end_scope, `for i in (0..locals.len()).rev()`: i counts down from
\* the length the list had at entry; local i is tested, the last local is removed
end_scope_locals(P, i) ==
    LET c == Cur(P)
    IN  IF i = 0
        THEN P
        ELSE IF c.locals[i].depth > c.scope_depth
             THEN end_scope_locals(
                      [emit(P, Instr(IF c.locals[i].is_captured THEN "CloseUpvalue"
                                     ELSE "Pop", 0, 0))
                          EXCEPT !.compilers[Len(P.compilers)].locals = Front(@)],
                      i - 1)
             ELSE end_scope_locals(P, i - 1)

end_scope(P) ==
    LET P1 == [P EXCEPT !.compilers[Len(P.compilers)].scope_depth = @ - 1]
    IN  end_scope_locals(P1, Len(Cur(P1).locals))

\* emit_return without the Initializer case: every function returns nil
emit_return_nil(P) == emit(emit(P, Instr("Nil", 0, 0)), Instr("Return", 0, 0))

emit_return(P) ==
    emit(emit(P, IF Cur(P).function_type = "Initializer"
                 THEN Instr("GetLocal", 0, 0)
                 ELSE Instr("Nil", 0, 0)),
         Instr("Return", 0, 0))

push_compiler(P, function_name, kind) ==
    [P EXCEPT !.compilers = Append(@, Compiler_new(function_name, kind, P.module))]

\* pop_compiler: the parser state after it; its result is Cur(emit_return(P)).function
pop_compiler(P) == [emit_return(P) EXCEPT !.compilers = Front(@)]

BinaryInstructions(operator) ==
    CASE operator = "+" -> <<"Add">>
      [] operator = "-" -> <<"Subtract">>
      [] operator = "*" -> <<"Multiply">>
      [] operator = "/" -> <<"Divide">>
      [] operator = "%" -> <<"Modulo">>
      [] operator = "!=" -> <<"Equal", "Not">>
      [] operator = "==" -> <<"Equal">>
      [] operator = ">" -> <<"Greater">>
      [] operator = ">=" -> <<"Less", "Not">>
      [] operator = "<" -> <<"Less">>
      [] operator = "<=" -> <<"Greater", "Not">>

RECURSIVE emit_all(_, _)
emit_all(P, ops) ==
    IF ops = << >> THEN P ELSE emit_all(emit(P, Instr(Head(ops), 0, 0)), Tail(ops))

RECURSIVE expression(_, _), argument_list(_, _), named_variable(_, _, _),
          declaration(_, _), block(_, _), function(_, _, _, _, _),
          parameters(_, _), class_body(_, _), and_op(_, _), or_op(_, _),
          if_statement(_, _), while_statement(_, _), import_variables(_, _),
          array_elements(_, _, _, _), array(_, _), do_while_statement(_, _),
          for_statement(_, _), for_in_statement(_, _)

\* start_loop: the position of the instruction emitted next
start_loop(P) == Len(Cur(P).function.code)

emit_loop(P, start) == emit(P, Instr("Loop", start_loop(P) - start + 1, 0))

\* a patch_jump whose jump lands one instruction further on
patch_jump_late(P, pos) ==
    [P EXCEPT !.compilers[Len(P.compilers)].function.code[pos + 1].a = start_loop(P) - pos]

\* patch_jump: the jump at pos lands on the instruction emitted next
patch_jump(P, pos) ==
    [P EXCEPT !.compilers[Len(P.compilers)].function.code[pos + 1].a =
                  start_loop(P) - pos - 1]

named_variable(P, name, value) ==
    LET \* l: the result of resolve_local; u: of resolve_upvalue, called if l is None
        resolved(l, u) ==
            LET P1 == IF l.found
                      THEN [P EXCEPT !.had_error = @ \/ l.error]
                      ELSE IF u.found
                           THEN [P EXCEPT !.compilers = u.compilers,
                                          !.had_error = @ \/ u.error]
                           ELSE identifier_constant(P, name)
                kind == IF l.found THEN "Local" ELSE IF u.found THEN "Upvalue" ELSE "Global"
                arg == IF l.found THEN l.index
                       ELSE IF u.found THEN u.index ELSE ConstantIndex(P1)
            IN  IF value.k # "none"
                THEN emit(expression(P1, value), Instr("Set" \o kind, arg, 0))
                ELSE emit(P1, Instr("Get" \o kind, arg, 0))
    IN  resolved(Compiler_resolve_local(Cur(P), name),
                 Compiler_resolve_upvalue(P.compilers, Len(P.compilers), name))

argument_list(P, args) ==
    IF args = << >> THEN P ELSE argument_list(expression(P, Head(args)), Tail(args))

\* super_: `super.name` or `super.name(args)`
super_(P, e) ==
    LET P0 == IF P.class_compilers = << >> THEN error(P)
              ELSE IF ~Last(P.class_compilers).has_superclass THEN error(P)
              ELSE P
        P1 == identifier_constant(P0, e.name)
        name == ConstantIndex(P1)
        \* P2: the parser after named_variable("this")
        access(P2) ==
            IF e.call
            THEN emit(named_variable(argument_list(P2, e.args), "super", NoExpr),
                      Instr("SuperInvoke", name, Len(e.args)))
            ELSE emit(named_variable(P2, "super", NoExpr), Instr("GetSuper", name, 0))
    IN  access(named_variable(P1, "this", NoExpr))

\* dot: `object.name`, `object.name = value`, `object.name(args)`
dot(P, e) ==
    LET P1 == identifier_constant(P, e.name)
        name == ConstantIndex(P1)
    IN  CASE e.mode = "set" -> emit(expression(P1, e.value), Instr("SetProperty", name, 0))
          [] e.mode = "invoke" ->
                emit(argument_list(P1, e.args), Instr("Invoke", name, Len(e.args)))
          [] e.mode = "get" -> emit(P1, Instr("GetProperty", name, 0))

expression(P, e) ==
    CASE e.k = "number" ->
            LET P1 == make_constant(P, Value_Number(e.n))
            IN  emit(P1, Instr("Constant", ConstantIndex(P1), 0))
      [] e.k = "string" ->
            LET P1 == make_constant(P, Value_String(e.s))
            IN  emit(P1, Instr("Constant", ConstantIndex(P1), 0))
      [] e.k = "literal" -> emit(P, Instr(e.v, 0, 0))
      [] e.k = "variable" -> named_variable(P, e.name, e.value)
      [] e.k = "this" ->
            IF P.class_compilers = << >> THEN error(P)
            ELSE named_variable(P, "this", NoExpr)
      [] e.k = "super" -> super_(P, e)
      [] e.k = "unary" ->
            emit(expression(P, e.right),
                 Instr(IF e.operator = "!" THEN "Not" ELSE "Negate", 0, 0))
      [] e.k = "binary" ->
            emit_all(expression(expression(P, e.left), e.right),
                     BinaryInstructions(e.operator))
      [] e.k = "call" ->
            emit(argument_list(expression(P, e.callee), e.args),
                 Instr("Call", Len(e.args), 0))
      [] e.k = "dot" -> dot(expression(P, e.object), e)
      [] e.k = "and" -> and_op(expression(P, e.left), e)
      [] e.k = "or" -> or_op(expression(P, e.left), e)
      [] e.k = "array" -> array(P, e)

\* the element loop of array: arg_count elements are compiled, local is `array`
array_elements(P, local, elements, arg_count) ==
    LET \* P1: the parser after make_constant for the index of the element
        element(P1) ==
            expression(emit(P1, Instr("Constant", ConstantIndex(P1), 0)), Head(elements))
        \* P2: the parser after identifier_constant("set")
        stored(P2) ==
            emit(emit(P2, Instr("Invoke", ConstantIndex(P2), 2)), Instr("Pop", 0, 0))
    IN  IF elements = << >>
        THEN P
        ELSE array_elements(
                 stored(identifier_constant(
                            element(make_constant(emit(P, Instr("GetLocal", local, 0)),
                                                  Value_Number(arg_count))),
                            "set")),
                 local, Tail(elements), arg_count + 1)

\* array, the prefix rule of `[`: Array(n) is called and held in the hidden
\* local $array while the elements are set
array(P, e) ==
    LET \* the position of the Nil that becomes the constant of the length
        args == start_loop(P) + 1
        \* P1: the parser after identifier_constant("Array")
        called(P1) ==
            add_local(emit(emit(emit(P1, Instr("GetGlobal", ConstantIndex(P1), 0)),
                                Instr("Nil", 0, 0)),
                           Instr("Call", 1, 0)),
                      "$array")
        \* P2: the parser after add_local
        filled(P2) ==
            array_elements(mark_initialized(P2), Len(Cur(P2).locals) - 1, e.elements, 0)
        \* P4: the parser after make_constant for the length
        patched(P4) ==
            [P4 EXCEPT !.compilers[Len(P4.compilers)].function.code[args + 1] =
                           Instr("Constant", ConstantIndex(P4), 0)]
    IN  patched(make_constant(filled(called(identifier_constant(P, "Array"))),
                              Value_Number(Len(e.elements))))

\* and_op, the infix rule of `and`: P is the parser after the left operand
and_op(P, e) ==
    patch_jump(expression(emit(emit(P, Instr("JumpIfFalse", 0, 0)), Instr("Pop", 0, 0)),
                          e.right),
               start_loop(P))

\* or_op, the infix rule of `or`: P is the parser after the left operand
or_op(P, e) ==
    LET else_jump == start_loop(P)
        end_jump == else_jump + 1
        P1 == emit(patch_jump(emit(emit(P, Instr("JumpIfFalse", 0, 0)),
                                   Instr("Jump", 0, 0)),
                              else_jump),
                   Instr("Pop", 0, 0))
    IN  patch_jump(expression(P1, e.right), end_jump)

parameters(P, params) ==
    IF params = << >>
    THEN P
    ELSE LET P1 == [P EXCEPT !.compilers[Len(P.compilers)].function.arity = @ + 1]
             P2 == parse_variable(P1, Head(params))
         IN  parameters(define_variable(P2, ParseVariableIndex(P2)), Tail(params))

function(P, function_name, kind, params, body) ==
    LET \* P2: the parser after the body of the function
        closure(P2) ==
            LET P3 == make_constant(pop_compiler(P2),
                                    Value_Function(Cur(emit_return(P2)).function))
            IN  emit(P3, Instr("Closure", ConstantIndex(P3), 0))
    IN  closure(block(parameters(begin_scope(push_compiler(P, function_name, kind)),
                                 params),
                      body))

method(P, m) ==
    LET P1 == identifier_constant(P, m.name)
    IN  emit(function(P1, m.name, IF m.name = "init" THEN "Initializer" ELSE "Method",
                      m.params, m.body),
             Instr("Method", ConstantIndex(P1), 0))

\* the loop over the methods of a class body; once had_error is set the result
\* of compile is Err(()) whatever is compiled after it, and the rest is skipped
class_body(P, ms) ==
    IF ms = << >> \/ P.had_error THEN P ELSE class_body(method(P, Head(ms)), Tail(ms))

class_declaration(P, s) ==
    LET P1 == identifier_constant(P, s.name)
        name_constant == ConstantIndex(P1)
        P2 == define_variable(
                 emit(declare_variable(P1, s.name), Instr("Class", name_constant, 0)),
                 name_constant)
        P3 == [P2 EXCEPT !.class_compilers = Append(@, [has_superclass |-> FALSE])]
        \* P4: the parser after the superclass name was compiled as a variable
        superclass(P4) ==
            [emit(named_variable(
                      define_variable(
                          add_local(begin_scope(IF s.name = s.superclass
                                                THEN error(P4) ELSE P4),
                                    "super"),
                          0),
                      s.name, NoExpr),
                  Instr("Inherit", 0, 0))
                EXCEPT !.class_compilers[Len(P3.class_compilers)].has_superclass = TRUE]
        \* P8: the parser after the class body
        end_class(P8) ==
            [(IF Last(P8.class_compilers).has_superclass THEN end_scope(P8) ELSE P8)
                EXCEPT !.class_compilers = Front(@)]
    IN  end_class(
            emit(class_body(named_variable(IF s.superclass # ""
                                           THEN superclass(named_variable(P3, s.superclass,
                                                                          NoExpr))
                                           ELSE P3,
                                           s.name, NoExpr),
                            s.methods),
                 Instr("Pop", 0, 0)))

fun_declaration(P, s) ==
    LET P1 == parse_variable(P, s.name)
        global == ParseVariableIndex(P1)
    IN  define_variable(function(mark_initialized(P1), s.name, "Function",
                                 s.params, s.body),
                        global)

var_declaration(P, s) ==
    LET P1 == parse_variable(P, s.name)
        index == ParseVariableIndex(P1)
        P2 == IF s.value.k # "none" THEN expression(P1, s.value)
              ELSE emit(P1, Instr("Nil", 0, 0))
    IN  define_variable(P2, index)

return_statement(P, s) ==
    LET P1 == IF Cur(P).function_type = "Script" THEN error(P) ELSE P
    IN  IF s.value.k = "none"
        THEN emit_return(P1)
        ELSE emit(expression(IF Cur(P1).function_type = "Initializer"
                             THEN error(P1) ELSE P1,
                             s.value),
                  Instr("Return", 0, 0))

print_statement(P, s) == emit(expression(P, s.value), Instr("Print", 0, 0))

expression_statement(P, s) == emit(expression(P, s.value), Instr("Pop", 0, 0))

if_statement(P, s) ==
    LET \* P2: the parser after the then statement
        else_branch(P2, then_jump) ==
            LET else_jump == start_loop(P2)
                P3 == emit(patch_jump(emit(P2, Instr("Jump", 0, 0)), then_jump),
                           Instr("Pop", 0, 0))
            IN  patch_jump(IF s.else.k # "none" THEN declaration(P3, s.else) ELSE P3,
                           else_jump)
        \* P1: the parser after the condition
        then_branch(P1) ==
            else_branch(declaration(emit(emit(P1, Instr("JumpIfFalse", 0, 0)),
                                         Instr("Pop", 0, 0)),
                                    s.then),
                        start_loop(P1))
    IN  then_branch(expression(P, s.cond))

while_statement(P, s) ==
    LET \* P1: the parser after the condition
        body(P1) ==
            emit(patch_jump(emit_loop(declaration(emit(emit(P1, Instr("JumpIfFalse", 0, 0)),
                                                       Instr("Pop", 0, 0)),
                                                  s.body),
                                      start_loop(P)),
                            start_loop(P1)),
                 Instr("Pop", 0, 0))
    IN  body(expression(P, s.cond))

do_while_statement(P, s) ==
    emit(emit_loop(emit(emit(expression(declaration(P, s.body), s.cond),
                             Instr("JumpIfFalse", 2, 0)),
                        Instr("Pop", 0, 0)),
                   start_loop(P)),
         Instr("Pop", 0, 0))

\* for_in_statement: P is the parser after `for (let identifier` in its scope
for_in_statement(P, s) ==
    LET \* P5: the parser after Invoke(hasNext)
        iteration(P5, iterator, loop_start) ==
            LET exit_jump == start_loop(P5)
                \* P6: the parser after identifier_constant("next")
                fetched(P6) ==
                    add_local(emit(P6, Instr("Invoke", ConstantIndex(P6), 0)), s.name)
                \* P7: the parser after add_local(identifier)
                bound(P7) ==
                    declaration(define_variable(P7, Len(Cur(P7).locals) - 1), s.body)
            IN  patch_jump(
                    emit_loop(
                        emit(bound(fetched(identifier_constant(
                                               emit(emit(emit(P5, Instr("JumpIfFalse", 0, 0)),
                                                         Instr("Pop", 0, 0)),
                                                    Instr("GetLocal", iterator, 0)),
                                               "next"))),
                             Instr("Pop", 0, 0)),
                        loop_start),
                    exit_jump)
        \* P4: the parser after identifier_constant("hasNext")
        tested(P4) == emit(P4, Instr("Invoke", ConstantIndex(P4), 0))
        \* P3: the parser after define_variable(iterator)
        looping(P3, iterator) ==
            iteration(tested(identifier_constant(emit(P3, Instr("GetLocal", iterator, 0)),
                                                 "hasNext")),
                      iterator, start_loop(P3))
        \* P2: the parser after add_local($iterator)
        iterated(P2) ==
            looping(define_variable(P2, Len(Cur(P2).locals) - 1), Len(Cur(P2).locals) - 1)
        \* P1: the parser after identifier_constant("iterator")
        invoked(P1) ==
            add_local(emit(P1, Instr("Invoke", ConstantIndex(P1), 0)), "$iterator")
    IN  iterated(invoked(identifier_constant(expression(P, s.iterable), "iterator")))

\* for_statement: initializer, condition and increment may each be absent
for_statement(P, s) ==
    LET \* P1: the parser after declare_variable and identifier_constant
        defined(P1) ==
            define_variable(IF s.init.value.k # "none"
                            THEN expression(P1, s.init.value)
                            ELSE emit(P1, Instr("Nil", 0, 0)),
                            ConstantIndex(P1))
        \* P0: the parser after begin_scope
        initializer(P0) ==
            CASE s.init.k = "none" -> P0
              [] s.init.k = "let" ->
                    defined(identifier_constant(declare_variable(P0, s.init.name),
                                                s.init.name))
              [] s.init.k = "expr" -> expression_statement(P0, s.init)
        \* P2: the parser after the initializer
        condition(P2) ==
            IF s.cond.k # "none"
            THEN emit(emit(expression(P2, s.cond), Instr("JumpIfFalse", 0, 0)),
                      Instr("Pop", 0, 0))
            ELSE P2
        \* P3: the parser after the condition; body_jump is emitted next
        increment(P3, loop_start) ==
            IF s.incr.k # "none"
            THEN patch_jump(
                     emit_loop(emit(expression(emit(P3, Instr("Jump", 0, 0)), s.incr),
                                    Instr("Pop", 0, 0)),
                               loop_start),
                     start_loop(P3))
            ELSE P3
        \* P5: the parser after the Loop that ends the body
        finished(P5, exit_jump) ==
            IF s.cond.k # "none"
            THEN emit(patch_jump(P5, exit_jump), Instr("Pop", 0, 0))
            ELSE P5
        looped(P3, loop_start) ==
            finished(emit_loop(declaration(increment(P3, loop_start), s.body),
                               IF s.incr.k # "none" THEN start_loop(P3) + 1
                               ELSE loop_start),
                     start_loop(P3) - 2)
        started(P2) == looped(condition(P2), start_loop(P2))
    IN  end_scope(started(initializer(begin_scope(P))))

\* the loop of import_statement over the names after `for`
import_variables(P, vs) ==
    LET v == Head(vs)
        \* P1: the parser after identifier_constant(variable)
        declared(P1) ==
            LET name_constant == ConstantIndex(P1)
                P2 == IF v.as # "" THEN identifier_constant(P1, v.as) ELSE P1
                slot == IF v.as # "" THEN ConstantIndex(P2) ELSE name_constant
            IN  define_variable(
                    emit(declare_variable(P2, IF v.as # "" THEN v.as ELSE v.name),
                         Instr("ImportVariable", name_constant, 0)),
                    slot)
    IN  IF vs = << >>
        THEN P
        ELSE import_variables(declared(identifier_constant(P, v.name)), Tail(vs))

import_statement(P, s) ==
    LET P1 == make_constant(P, Value_String(s.name))
    IN  import_variables(emit(P1, Instr("ImportModule", ConstantIndex(P1), 0)), s.vars)

\* declaration and statement: one declaration or statement of the program
declaration(P, s) ==
    CASE s.k = "class" -> class_declaration(P, s)
      [] s.k = "fn" -> fun_declaration(P, s)
      [] s.k = "let" -> var_declaration(P, s)
      [] s.k = "print" -> print_statement(P, s)
      [] s.k = "return" -> return_statement(P, s)
      [] s.k = "block" -> end_scope(block(begin_scope(P), s.body))
      [] s.k = "expr" -> expression_statement(P, s)
      [] s.k = "if" -> if_statement(P, s)
      [] s.k = "while" -> while_statement(P, s)
      [] s.k = "import" -> import_statement(P, s)
      [] s.k = "do" -> do_while_statement(P, s)
      [] s.k = "for" -> for_statement(P, s)
      [] s.k = "for_in" -> end_scope(for_in_statement(begin_scope(P), s))

\* the loop over the declarations of a block or of the program; once had_error
\* is set the result of compile is Err(()) and the rest is skipped
block(P, body) ==
    IF body = << >> \/ P.had_error
    THEN P
    ELSE block(declaration(P, Head(body)), Tail(body))

\* compile returning the function whatever had_error is
compile_unchecked(src, module) ==
    [ok |-> TRUE, function |-> Cur(emit_return(block(Parser_new(module), src))).function]

\* Parser::compile / compiler::compile: Err(()) is [ok |-> FALSE]
compile(src, module) ==
    LET result(P) ==
            IF P.had_error THEN [ok |-> FALSE] ELSE [ok |-> TRUE, function |-> Cur(P).function]
    IN  result(emit_return(block(Parser_new(module), src)))

-----------------------------------------------------------------------------
(* The parser on tokens.  The operators above follow the syntax tree of a   *)
(* program; the operators below are the Parser methods on the token stream  *)
(* itself, with the error reports of error_at and the recovery of           *)
(* synchronize.  The scanner the compiler calls is not part of the sources: *)
(* Parser.scanner is the sequence of tokens it still has to return, and     *)
(* scan_token returns Eof once they are used up.  A token is its kind and   *)
(* its lexeme.  Parsing happens at script level (scope_depth 0).  Fields    *)
(* added to the parser record: panicked (a Rust panic unwound the parser),  *)
(* arg_count (the value argument_list returned last) and the history log:   *)
(* the reports written to stderr, the calls and returns of synchronize and  *)
(* the assignments emitted, each with the can_assign of the rule emitting.  *)

Token(kind, lexeme) == [kind |-> kind, lexeme |-> lexeme]

\* Token::synthetic: a token outside the source text
Token_synthetic(text) == Token("Error", text)

Precedence ==
    [None |-> 0, Assignment |-> 1, Or |-> 2, And |-> 3, Equality |-> 4,
     Comparison |-> 5, Term |-> 6, Factor |-> 7, Unary |-> 8, Call |-> 9,
     Primary |-> 10]

\* Precedence::next
Precedence_next(p) == IF p = Precedence.Primary THEN Precedence.None ELSE p + 1

ParseRule(prefix, infix, precedence) ==
    [prefix |-> prefix, infix |-> infix, precedence |-> precedence]

\* Parser::rules: a rule function is its name, Option::None is "None"
rules ==
    [kind \in {"RightParen", "LeftBrace", "RightBrace", "RightBracket", "Comma",
               "Semicolon", "Equal", "Class", "Else", "For", "Fn", "If", "Import",
               "Print", "Return", "Let", "While", "Error", "Eof"}
        |-> ParseRule("None", "None", Precedence.None)]
    @@ [kind \in {"Plus"} |-> ParseRule("None", "binary", Precedence.Term)]
    @@ [kind \in {"Slash", "Star", "Percent"}
            |-> ParseRule("None", "binary", Precedence.Factor)]
    @@ [kind \in {"BangEqual", "EqualEqual"}
            |-> ParseRule("None", "binary", Precedence.Equality)]
    @@ [kind \in {"Greater", "GreaterEqual", "Less", "LessEqual"}
            |-> ParseRule("None", "binary", Precedence.Comparison)]
    @@ [kind \in {"False", "Nil", "True"}
            |-> ParseRule("literal", "None", Precedence.None)]
    @@ ("LeftParen" :> ParseRule("grouping", "call", Precedence.Call))
    @@ ("LeftBracket" :> ParseRule("array", "index", Precedence.Call))
    @@ ("Dot" :> ParseRule("None", "dot", Precedence.Call))
    @@ ("Minus" :> ParseRule("unary", "binary", Precedence.Term))
    @@ ("Bang" :> ParseRule("unary", "None", Precedence.None))
    @@ ("Identifier" :> ParseRule("variable", "None", Precedence.None))
    @@ ("String" :> ParseRule("string", "None", Precedence.None))
    @@ ("Number" :> ParseRule("number", "None", Precedence.None))
    @@ ("And" :> ParseRule("None", "and_op", Precedence.And))
    @@ ("Or" :> ParseRule("None", "or_op", Precedence.Or))
    @@ ("Super" :> ParseRule("super_", "None", Precedence.None))
    @@ ("This" :> ParseRule("this", "None", Precedence.None))

\* Parser::new over the tokens the scanner will return
Parser_on(tokens, module) ==
    Parser_new(module)
    @@ [scanner |-> tokens, current |-> Token_synthetic(""),
        previous |-> Token_synthetic(""), panic_mode |-> FALSE,
        panicked |-> FALSE, arg_count |-> 0, log |-> << >>]

\* a Rust panic: the parser is left as it is
Parser_panic(P) == [P EXCEPT !.panicked = TRUE]

Parser_error_at(P, token, text) ==
    IF P.panicked \/ P.panic_mode
    THEN P
    ELSE [P EXCEPT !.panic_mode = TRUE,
                   !.had_error = TRUE,
                   !.log = Append(@, [event |-> "report", at |-> token.kind,
                                      message |-> text])]

Parser_error_at_current(P, text) == Parser_error_at(P, P.current, text)

Parser_error(P, text) == Parser_error_at(P, P.previous, text)

RECURSIVE Parser_scan(_)
\* the loop of advance: Error tokens are reported and skipped
Parser_scan(P) ==
    LET token == IF P.scanner = << >> THEN Token("Eof", "") ELSE Head(P.scanner)
        scanned == [P EXCEPT !.current = token,
                             !.scanner = IF @ = << >> THEN @ ELSE Tail(@)]
    IN  IF token.kind # "Error"
        THEN scanned
        ELSE Parser_scan(Parser_error_at_current(scanned, token.lexeme))

Parser_advance(P) ==
    IF P.panicked THEN P ELSE Parser_scan([P EXCEPT !.previous = P.current])

Parser_check(P, expected) == P.current.kind = expected

\* matches: the parser after it; it returned Parser_check(P, expected)
Parser_matches(P, expected) ==
    IF Parser_check(P, expected) THEN Parser_advance(P) ELSE P

Parser_consume(P, expected, text) ==
    IF Parser_check(P, expected)
    THEN Parser_advance(P)
    ELSE Parser_error_at_current(P, text)

Parser_emit(P, instruction) == IF P.panicked THEN P ELSE emit(P, instruction)

Parser_make_constant(P, value) == IF P.panicked THEN P ELSE make_constant(P, value)

Parser_identifier_constant(P, name) ==
    Parser_make_constant(P, Value_String(name.lexeme))

Parser_emit_constant(P, value) ==
    LET made(P1) == Parser_emit(P1, Instr("Constant", ConstantIndex(P1), 0))
    IN  made(Parser_make_constant(P, value))

Parser_patch_jump(P, pos) == IF P.panicked THEN P ELSE patch_jump(P, pos)

\* an assignment emitted by a rule invoked with can_assign
Parser_emit_set(P, instruction, rule, can_assign) ==
    IF P.panicked
    THEN P
    ELSE [emit(P, instruction)
             EXCEPT !.log = Append(@, [event |-> "set", rule |-> rule,
                                       can_assign |-> can_assign])]

\* str::parse::<f64> on the lexemes of the Number tokens
parse_f64(lexeme) ==
    CASE lexeme = "0" -> 0 [] lexeme = "1" -> 1 [] lexeme = "2" -> 2

RECURSIVE Parser_parse_precedence(_, _), Parser_infix_rules(_, _, _),
          Parser_rule(_, _, _), Parser_arguments(_, _)

Parser_expression(P) == Parser_parse_precedence(P, Precedence.Assignment)

Parser_number(P) ==
    Parser_emit_constant(P, Value_Number(parse_f64(P.previous.lexeme)))

Parser_literal(P) ==
    Parser_emit(P, Instr(P.previous.kind, 0, 0))

Parser_named_variable(P, name, can_assign) ==
    LET \* at script level resolve_local and resolve_upvalue return None: the
        \* variable is a global
        global(P1) ==
            LET index == ConstantIndex(P1)
            IN  IF can_assign /\ Parser_check(P1, "Equal")
                THEN Parser_emit_set(Parser_expression(Parser_advance(P1)),
                                     Instr("SetGlobal", index, 0), "variable", can_assign)
                ELSE Parser_emit(P1, Instr("GetGlobal", index, 0))
    IN  global(Parser_identifier_constant(P, name))

Parser_variable(P, can_assign) == Parser_named_variable(P, P.previous, can_assign)

Parser_grouping(P) ==
    Parser_consume(Parser_expression(P), "RightParen", "Expect ')' after expression.")

Parser_unary(P) ==
    LET operator_type == P.previous.kind
    IN  Parser_emit(Parser_parse_precedence(P, Precedence.Unary),
                    Instr(IF operator_type = "Bang" THEN "Not" ELSE "Negate", 0, 0))

RECURSIVE Parser_emit_all(_, _)
Parser_emit_all(P, ops) ==
    IF ops = << >> THEN P
    ELSE Parser_emit_all(Parser_emit(P, Instr(Head(ops), 0, 0)), Tail(ops))

Parser_binary(P) ==
    LET operator_type == P.previous.kind
        instructions ==
            CASE operator_type = "Plus" -> <<"Add">>
              [] operator_type = "Minus" -> <<"Subtract">>
              [] operator_type = "Star" -> <<"Multiply">>
              [] operator_type = "Slash" -> <<"Divide">>
              [] operator_type = "Percent" -> <<"Modulo">>
              [] operator_type = "BangEqual" -> <<"Equal", "Not">>
              [] operator_type = "EqualEqual" -> <<"Equal">>
              [] operator_type = "Greater" -> <<"Greater">>
              [] operator_type = "GreaterEqual" -> <<"Less", "Not">>
              [] operator_type = "Less" -> <<"Less">>
              [] operator_type = "LessEqual" -> <<"Greater", "Not">>
    IN  Parser_emit_all(
            Parser_parse_precedence(P, Precedence_next(rules[operator_type].precedence)),
            instructions)

Parser_and_op(P) ==
    LET end_jump == start_loop(P)
    IN  Parser_patch_jump(
            Parser_parse_precedence(
                Parser_emit(Parser_emit(P, Instr("JumpIfFalse", 0, 0)), Instr("Pop", 0, 0)),
                Precedence.And),
            end_jump)

Parser_or_op(P) ==
    LET else_jump == start_loop(P)
        end_jump == else_jump + 1
        jumps == Parser_emit(Parser_emit(P, Instr("JumpIfFalse", 0, 0)),
                             Instr("Jump", 0, 0))
    IN  Parser_patch_jump(
            Parser_parse_precedence(
                Parser_emit(Parser_patch_jump(jumps, else_jump), Instr("Pop", 0, 0)),
                Precedence.Or),
            end_jump)

\* the loop of argument_list after arg_count arguments
Parser_arguments(P, arg_count) ==
    LET argument(P1) ==
            IF P1.panicked THEN P1
            ELSE IF Parser_check(P1, "Comma")
                 THEN Parser_arguments(Parser_advance(P1), arg_count + 1)
                 ELSE [P1 EXCEPT !.arg_count = arg_count + 1]
    IN  argument(Parser_expression(P))

Parser_argument_list(P) ==
    Parser_consume(IF Parser_check(P, "RightParen")
                   THEN [P EXCEPT !.arg_count = 0]
                   ELSE Parser_arguments(P, 0),
                   "RightParen", "Expect ')' after arguments.")

Parser_call(P) ==
    LET listed(P1) == Parser_emit(P1, Instr("Call", P1.arg_count, 0))
    IN  listed(Parser_argument_list(P))

Parser_dot(P, can_assign) ==
    LET named(P1) ==
            LET name == ConstantIndex(P1)
                listed(P2) == Parser_emit(P2, Instr("Invoke", name, P2.arg_count))
            IN  IF can_assign /\ Parser_check(P1, "Equal")
                THEN Parser_emit_set(Parser_expression(Parser_advance(P1)),
                                     Instr("SetProperty", name, 0), "dot", can_assign)
                ELSE IF Parser_check(P1, "LeftParen")
                     THEN listed(Parser_argument_list(Parser_advance(P1)))
                     ELSE Parser_emit(P1, Instr("GetProperty", name, 0))
        consumed(P0) == named(Parser_identifier_constant(P0, P0.previous))
    IN  consumed(Parser_consume(P, "Identifier", "Expect property name after '.'."))

Parser_index(P, can_assign) ==
    LET constants(P1) ==
            LET get == ConstantIndex(P1) - 1
                set == ConstantIndex(P1)
            IN  IF Parser_check(P1, "Equal")
                THEN Parser_emit_set(Parser_expression(Parser_advance(P1)),
                                     Instr("Invoke", set, 2), "index", can_assign)
                ELSE Parser_emit(P1, Instr("Invoke", get, 1))
    IN  constants(
            Parser_identifier_constant(
                Parser_identifier_constant(
                    Parser_consume(Parser_expression(P), "RightBracket",
                                   "Expect ']' after index."),
                    Token_synthetic("get")),
                Token_synthetic("set")))

\* prefix_rule(self, can_assign) and infix_rule(self, can_assign)
Parser_rule(P, rule, can_assign) ==
    CASE rule = "number" -> Parser_number(P)
      [] rule = "literal" -> Parser_literal(P)
      [] rule = "variable" -> Parser_variable(P, can_assign)
      [] rule = "grouping" -> Parser_grouping(P)
      [] rule = "unary" -> Parser_unary(P)
      [] rule = "binary" -> Parser_binary(P)
      [] rule = "and_op" -> Parser_and_op(P)
      [] rule = "or_op" -> Parser_or_op(P)
      [] rule = "call" -> Parser_call(P)
      [] rule = "dot" -> Parser_dot(P, can_assign)
      [] rule = "index" -> Parser_index(P, can_assign)

\* the while loop of parse_precedence; is_lower_precedence and the infix rule
\* both call get_rule, which unwraps the rule of the kind
Parser_infix_rules(P, precedence, can_assign) ==
    LET advanced(P1) ==
            Parser_infix_rules(Parser_rule(P1, rules[P1.previous.kind].infix, can_assign),
                               precedence, can_assign)
    IN  IF P.panicked THEN P
        ELSE IF P.current.kind \notin DOMAIN rules THEN Parser_panic(P)
        ELSE IF precedence <= rules[P.current.kind].precedence
             THEN advanced(Parser_advance(P))
             ELSE P

Parser_parse_precedence(P, precedence) ==
    LET can_assign == precedence <= Precedence.Assignment
        target(P2) ==
            IF ~P2.panicked /\ can_assign /\ Parser_check(P2, "Equal")
            THEN Parser_error(Parser_advance(P2), "Invalid assignment target.")
            ELSE P2
        advanced(P1) ==
            IF P1.panicked THEN P1
            ELSE IF P1.previous.kind \notin DOMAIN rules THEN Parser_panic(P1)
            ELSE IF rules[P1.previous.kind].prefix = "None"
                 THEN Parser_error(P1, "Expect expression.")
                 ELSE target(Parser_infix_rules(
                                 Parser_rule(P1, rules[P1.previous.kind].prefix, can_assign),
                                 precedence, can_assign))
    IN  advanced(Parser_advance(P))

Parser_expression_statement(P) ==
    Parser_emit(Parser_consume(Parser_expression(P), "Semicolon",
                               "Expect ';' after expression."),
                Instr("Pop", 0, 0))

Parser_print_statement(P) ==
    Parser_emit(Parser_consume(Parser_expression(P), "Semicolon",
                               "Expect ';' after value."),
                Instr("Print", 0, 0))

\* var_declaration at scope_depth 0: parse_variable declares nothing and
\* returns the constant of the name, define_variable emits DefineGlobal
Parser_var_declaration(P) ==
    LET named(P1) ==
            LET index == ConstantIndex(P1)
            IN  Parser_emit(
                    Parser_consume(
                        IF Parser_check(P1, "Equal")
                        THEN Parser_expression(Parser_advance(P1))
                        ELSE Parser_emit(P1, Instr("Nil", 0, 0)),
                        "Semicolon", "Expect ';' after variable declaration."),
                    Instr("DefineGlobal", index, 0))
        consumed(P0) == named(Parser_identifier_constant(P0, P0.previous))
    IN  consumed(Parser_consume(P, "Identifier", "Expect variable name."))

RECURSIVE Parser_skip(_)
\* the loop of synchronize
Parser_skip(P) ==
    IF \/ P.panicked
       \/ P.previous.kind = "Eof"
       \/ P.previous.kind = "Semicolon"
       \/ P.current.kind \in {"Class", "Fn", "Let", "For", "If", "While", "Print", "Return"}
    THEN P
    ELSE Parser_skip(Parser_advance(P))

Parser_synchronize(P) ==
    LET skipped(P1) ==
            IF P1.panicked THEN P1
            ELSE [P1 EXCEPT !.log = Append(@, [event |-> "synchronized",
                                               previous |-> P1.previous.kind,
                                               current |-> P1.current.kind])]
    IN  skipped(Parser_skip([P EXCEPT !.panic_mode = FALSE,
                                      !.log = Append(@, [event |-> "synchronize"])]))

\* declaration and statement for the statements that begin with let or print
\* and for expression statements
Parser_declaration(P) ==
    LET declared(P1) ==
            IF ~P1.panicked /\ P1.panic_mode THEN Parser_synchronize(P1) ELSE P1
    IN  declared(IF Parser_check(P, "Let")
                 THEN Parser_var_declaration(Parser_advance(P))
                 ELSE IF Parser_check(P, "Print")
                      THEN Parser_print_statement(Parser_advance(P))
                      ELSE Parser_expression_statement(P))

-----------------------------------------------------------------------------
(* The scanner: src/src/scanner.rs.  A source text is the sequence of its   *)
(* characters, each a string of length one; a piece of it, source[a..b], is *)
(* the concatenation of its characters.  The methods of Scanner are         *)
(* operators on the record S of its fields; failed is the message of the    *)
(* panic that ended the scan, or "".                                         *)

Letters ==
    {"a", "b", "c", "d", "e", "f", "g", "h", "i", "j", "k", "l", "m", "n", "o", "p",
     "q", "r", "s", "t", "u", "v", "w", "x", "y", "z", "A", "B", "C", "D", "E", "F",
     "G", "H", "I", "J", "K", "L", "M", "N", "O", "P", "Q", "R", "S", "T", "U", "V",
     "W", "X", "Y", "Z"}

Digits == {"0", "1", "2", "3", "4", "5", "6", "7", "8", "9"}

\* char::is_digit(10)
is_digit(c) == c \in Digits

\* char::is_alphanumeric, on ASCII
is_alphanumeric(c) == c \in Letters \cup Digits

\* the variants of Token without a value, and the three with one
Token_of(kind) == [kind |-> kind]

Token_Identifier(value) == [kind |-> "Identifier", value |-> value]

Token_String(value) == [kind |-> "String", value |-> value]

Token_Number(value) == [kind |-> "Number", value |-> value]

Scanner_new(source_text) ==
    [source |-> source_text, tokens |-> << >>, start |-> 0, current |-> 0, failed |-> ""]

Scanner_panic(S, text) == [S EXCEPT !.failed = text]

Scanner_is_at_end(S) == S.current >= Len(S.source)

Scanner_source_at(S, index) == At(S.source, index)

\* peek: '\0' at the end of the source
Scanner_peek(S) == IF Scanner_is_at_end(S) THEN "NUL" ELSE Scanner_source_at(S, S.current)

Scanner_peek_next(S) ==
    IF S.current + 1 >= Len(S.source) THEN "NUL" ELSE Scanner_source_at(S, S.current + 1)

\* advance: the scanner after it; it returned source_at(current - 1)
Scanner_advance(S) == [S EXCEPT !.current = @ + 1]

Scanner_add_token(S, token) == [S EXCEPT !.tokens = Append(@, token)]

\* match_char: the scanner after it; it returned Scanner_matches(S, expected)
Scanner_matches(S, expected) ==
    ~Scanner_is_at_end(S) /\ Scanner_source_at(S, S.current) = expected

Scanner_match_char(S, expected) ==
    IF Scanner_matches(S, expected) THEN [S EXCEPT !.current = @ + 1] ELSE S

Scanner_match_token(S, expected, token_type, token_type_if_not_equal) ==
    IF Scanner_matches(S, expected)
    THEN Scanner_add_token(Scanner_match_char(S, expected), token_type)
    ELSE Scanner_add_token(S, token_type_if_not_equal)

\* skip_comment skipping nothing
Scanner_skip_comment_none(S) == S

RECURSIVE Scanner_skip_comment(_)
Scanner_skip_comment(S) ==
    IF Scanner_peek(S) # "\n" /\ ~Scanner_is_at_end(S)
    THEN Scanner_skip_comment(Scanner_advance(S))
    ELSE S

RECURSIVE Concat(_)
\* the text made of the characters cs
Concat(cs) == IF cs = << >> THEN "" ELSE Head(cs) \o Concat(Tail(cs))

\* &self.source[self.start..self.current]
Scanner_lexeme(S) == Concat(SubSeq(S.source, S.start + 1, S.current))

\* the loop of string taking a backslash for a character of the string
Scanner_string_loop_raw(S, terminator, value, escape) ==
    LET end == CHOOSE i \in (S.current + 1)..(Len(S.source) + 1) :
                   /\ i = Len(S.source) + 1 \/ S.source[i] = terminator
                   /\ \A j \in (S.current + 1)..(i - 1) : S.source[j] # terminator
    IN  IF end > Len(S.source)
        THEN Scanner_panic(S, "Unterminated string.")
        ELSE Scanner_add_token(
                 [S EXCEPT !.current = end],
                 Token_String(Concat(SubSeq(S.source, S.current + 1, end - 1))))

RECURSIVE Scanner_string_loop(_, _, _, _)
\* the loop of string: value is the local `string`
Scanner_string_loop(S, terminator, value, escape) ==
    IF Scanner_peek(S) # terminator \/ escape
    THEN IF Scanner_is_at_end(S)
         THEN Scanner_panic(S, "Unterminated string.")
         ELSE LET c == Scanner_source_at(S, S.current)
              IN  IF escape
                  THEN Scanner_string_loop(
                           Scanner_advance(S), terminator,
                           value \o (CASE c = "n" -> "\n"
                                       [] c = "t" -> "\t"
                                       [] c = "r" -> "\r"
                                       [] OTHER -> c),
                           FALSE)
                  ELSE IF c = "\\"
                       THEN Scanner_string_loop(Scanner_advance(S), terminator, value, TRUE)
                       ELSE Scanner_string_loop(Scanner_advance(S), terminator,
                                                value \o c, FALSE)
    ELSE Scanner_add_token(Scanner_advance(S), Token_String(value))

Scanner_string(S, terminator) == Scanner_string_loop(S, terminator, "", FALSE)

RECURSIVE Scanner_digits(_)
\* while self.peek().is_digit(10) { self.advance(); }
Scanner_digits(S) ==
    IF is_digit(Scanner_peek(S)) THEN Scanner_digits(Scanner_advance(S)) ELSE S

DigitValue(c) ==
    CASE c = "0" -> 0 [] c = "1" -> 1 [] c = "2" -> 2 [] c = "3" -> 3 [] c = "4" -> 4
      [] c = "5" -> 5 [] c = "6" -> 6 [] c = "7" -> 7 [] c = "8" -> 8 [] c = "9" -> 9

RECURSIVE Decimal(_, _, _)
\* str::parse::<f64> of digits with at most one point: the number is
\* mantissa / 10^scale, without trailing zeros after the point
Decimal(cs, mantissa, scale) ==
    IF cs = << >>
    THEN IF scale > 0 /\ mantissa % 10 = 0
         THEN Decimal(cs, mantissa \div 10, scale - 1)
         ELSE [mantissa |-> mantissa, scale |-> IF scale < 0 THEN 0 ELSE scale]
    ELSE IF Head(cs) = "."
         THEN Decimal(Tail(cs), mantissa, 0)
         ELSE Decimal(Tail(cs), 10 * mantissa + DigitValue(Head(cs)),
                      IF scale < 0 THEN scale ELSE scale + 1)

Scanner_number(S) ==
    LET fraction(S1) ==
            IF Scanner_peek(S1) = "." /\ is_digit(Scanner_peek_next(S1))
            THEN Scanner_digits(Scanner_advance(S1))
            ELSE S1
        scanned(S2) ==
            Scanner_add_token(
                S2, Token_Number(Decimal(SubSeq(S2.source, S2.start + 1, S2.current), 0, -1)))
    IN  scanned(fraction(Scanner_digits(S)))

Keywords ==
    {"and", "class", "else", "false", "fn", "if", "let", "nil", "or", "print",
     "return", "super", "this", "true", "while"}

\* the Token variant of a keyword: its name with a capital
KeywordToken(value) ==
    CASE value = "and" -> "And" [] value = "class" -> "Class" [] value = "else" -> "Else"
      [] value = "false" -> "False" [] value = "fn" -> "Fn" [] value = "if" -> "If"
      [] value = "let" -> "Let" [] value = "nil" -> "Nil" [] value = "or" -> "Or"
      [] value = "print" -> "Print" [] value = "return" -> "Return"
      [] value = "super" -> "Super" [] value = "this" -> "This"
      [] value = "true" -> "True" [] value = "while" -> "While"

RECURSIVE Scanner_alphanumerics(_)
\* while self.peek().is_alphanumeric() { self.advance(); }
Scanner_alphanumerics(S) ==
    IF is_alphanumeric(Scanner_peek(S))
    THEN Scanner_alphanumerics(Scanner_advance(S))
    ELSE S

Scanner_identifier(S) ==
    LET scanned(S1) ==
            LET value == Scanner_lexeme(S1)
            IN  Scanner_add_token(S1, IF value \in Keywords
                                      THEN Token_of(KeywordToken(value))
                                      ELSE Token_Identifier(value))
    IN  scanned(Scanner_alphanumerics(S))

\* scan_token after `let c = self.advance()`
Scanner_scan_token(S0) ==
    LET S == Scanner_advance(S0)
        c == Scanner_source_at(S, S.current - 1)
    IN  CASE c \in {" ", "\r", "\t", "\n"} -> S
          [] c = "(" -> Scanner_add_token(S, Token_of("LeftParen"))
          [] c = ")" -> Scanner_add_token(S, Token_of("RightParen"))
          [] c = "{" -> Scanner_add_token(S, Token_of("LeftBrace"))
          [] c = "}" -> Scanner_add_token(S, Token_of("RightBrace"))
          [] c = "," -> Scanner_add_token(S, Token_of("Comma"))
          [] c = "-" -> Scanner_add_token(S, Token_of("Minus"))
          [] c = "+" -> Scanner_add_token(S, Token_of("Plus"))
          [] c = ";" -> Scanner_add_token(S, Token_of("Semicolon"))
          [] c = "*" -> Scanner_add_token(S, Token_of("Star"))
          [] c = "." -> Scanner_add_token(S, Token_of("Dot"))
          [] c = "!" -> Scanner_match_token(S, "=", Token_of("BangEqual"), Token_of("Bang"))
          [] c = "=" -> Scanner_match_token(S, "=", Token_of("EqualEqual"), Token_of("Equal"))
          [] c = ">" ->
                Scanner_match_token(S, "=", Token_of("GreaterEqual"), Token_of("Greater"))
          [] c = "<" -> Scanner_match_token(S, "=", Token_of("LessEqual"), Token_of("Less"))
          [] c = "/" ->
                IF Scanner_matches(S, "/")
                THEN Scanner_skip_comment(Scanner_match_char(S, "/"))
                ELSE Scanner_add_token(S, Token_of("Slash"))
          [] c = "\"" -> Scanner_string(S, "\"")
          [] c = "'" -> Scanner_string(S, "'")
          [] is_digit(c) -> Scanner_number(S)
          [] c \in Letters \cup {"_"} -> Scanner_identifier(S)
          [] OTHER -> Scanner_panic(S, "Unexpected character")

-----------------------------------------------------------------------------
(* The virtual machine: src/src/vm.rs.  The methods of VM are operators on  *)
(* the record S of the VM's fields; VM::error and a Rust panic end the run. *)

Module_new(name) == [kind |-> "Module", name |-> name, variables |-> EmptyMap]

\* A path is its components and whether it is absolute; the text of a path
\* (to_str, Path::new) is represented by the path itself.  An Option is the
\* sequence of its zero or one values.
Path(absolute, comps) == [absolute |-> absolute, comps |-> comps]

\* Path::new(name) for the name of an import: a file name, one component
Path_new(name) == Path(FALSE, <<name>>)

\* Path::parent
parent(path) == Path(path.absolute, Front(path.comps))

\* Path::with_file_name: the file name is replaced by the pushed path
with_file_name(path, name) ==
    IF Path_new(name).absolute
    THEN Path_new(name)
    ELSE Path(path.absolute,
              (IF path.comps = << >> THEN << >> ELSE Front(path.comps))
                  \o Path_new(name).comps)

RECURSIVE relative_components(_, _, _)
\* the loop of path_relative_from over the components ita of path and itb of base
relative_components(ita, itb, comps) ==
    IF ita = << >> /\ itb = << >> THEN <<Path(FALSE, comps)>>
    ELSE IF itb = << >> THEN <<Path(FALSE, comps \o ita)>>
    ELSE IF ita = << >> THEN relative_components(ita, Tail(itb), Append(comps, ".."))
    ELSE IF comps = << >> /\ Head(ita) = Head(itb)
         THEN relative_components(Tail(ita), Tail(itb), comps)
    ELSE IF Head(itb) = "."
         THEN relative_components(Tail(ita), Tail(itb), Append(comps, Head(ita)))
    ELSE IF Head(itb) = ".." THEN << >>
    ELSE <<Path(FALSE, comps \o [i \in 1..Len(itb) |-> ".."] \o ita)>>

path_relative_from(path, base) ==
    IF path.absolute # base.absolute
    THEN IF path.absolute THEN <<path>> ELSE << >>
    ELSE relative_components(path.comps, base.comps, << >>)

Class_new(name) == [kind |-> "Class", name |-> name, methods |-> EmptyMap]

Instance_new(class) == [kind |-> "Instance", class |-> class, fields |-> EmptyMap]

UpvalueRegistry_Open(index) == [kind |-> "Open", index |-> index]

UpvalueRegistry_Closed(value) == [kind |-> "Closed", value |-> value]

CallFrame(fun, ip, base, upvalues) ==
    [function |-> fun, ip |-> ip, base |-> base, upvalues |-> upvalues]

\* VM::error: report and std::process::exit(1)
Error(S, msg) ==
    IF S.status = "running" THEN [S EXCEPT !.status = "error", !.message = msg] ELSE S

\* a Rust panic: unwrap on None, index out of bounds, panic!
Panic(S, msg) ==
    IF S.status = "running" THEN [S EXCEPT !.status = "panic", !.message = msg] ELSE S

Running(S) == S.status = "running"

\* Gc::deref
Deref(S, ref) == At(S.objects, ref)

\* Gc::alloc with no freed slot: the new handle is AllocRef(S)
AllocRef(S) == Len(S.objects)

\* an alloc that also hands out slot 0 again while it is in use
alloc_reusing(S, obj) ==
    [S EXCEPT !.objects = IF @ = << >> THEN <<obj>> ELSE [Append(@, obj) EXCEPT ![1] = obj]]

alloc(S, obj) == [S EXCEPT !.objects = Append(@, obj)]

SetObject(S, ref, obj) == [S EXCEPT !.objects[ref + 1] = obj]

frame(S) == Last(S.frames)

push(S, value) == [S EXCEPT !.stack = Append(@, value)]

\* Vec::pop: the stack without its top (an empty stack stays empty)
pop(S) == [S EXCEPT !.stack = IF @ = << >> THEN @ ELSE Front(@)]

peek(S, distance) == At(S.stack, Len(S.stack) - 1 - distance)

\* T guarded by the unwrap of a pop or peek that needs n values on the stack
Need(S, n, T) ==
    IF Len(S.stack) < n THEN Panic(S, "unwrap on None") ELSE T

read_constant(S, index) == At(frame(S).function.constants, index)

read_string(S, index) == read_constant(S, index).s

\* globals looking in the module of the outermost frame
globals_of_script(S) == Deref(S, S.frames[1].function.module).variables

globals(S) == Deref(S, frame(S).function.module).variables

SetGlobals(S, variables) ==
    [S EXCEPT !.objects[frame(S).function.module + 1].variables = variables]

\* call without the arity check
call_unchecked(S, fun, upvalues, arg_count) ==
    [S EXCEPT !.frames = Append(@, CallFrame(fun, 0, Len(S.stack) - arg_count - 1,
                                             upvalues))]

call(S, fun, upvalues, arg_count) ==
    IF arg_count # fun.arity
    THEN Error(S, "Expected arguments")
    ELSE [S EXCEPT !.frames = Append(@, CallFrame(fun, 0,
                                                  Len(S.stack) - arg_count - 1, upvalues))]

\* the result of a native function (its code is not part of the core)
NativeResult(name, args) == Value_Nil

call_value(S, callee, arg_count) ==
    CASE callee.t = "Closure" -> call(S, callee.function, callee.upvalues, arg_count)
      [] callee.t = "Function" -> call(S, callee.function, << >>, arg_count)
      [] callee.t = "Class" ->
            LET S1 == alloc(S, Instance_new(callee.ref))
                S2 == [S1 EXCEPT !.stack[Len(S.stack) - arg_count] =
                                        Value_Instance(AllocRef(S))]
                class == Deref(S, callee.ref)
            IN  IF "init" \in DOMAIN class.methods
                THEN LET init == class.methods["init"]
                     IN  CASE init.t = "Closure" ->
                                 call(S2, init.function, init.upvalues, arg_count)
                           [] init.t = "Function" ->
                                 call(S2, init.function, << >>, arg_count)
                           [] OTHER -> Panic(S2, "Expected function.")
                ELSE IF arg_count # 0
                     THEN Panic(S2, "Expected 0 arguments")
                     ELSE S2
      [] callee.t = "BoundMethod" ->
            call([S EXCEPT !.stack[Len(S.stack) - arg_count] =
                                Value_Instance(callee.receiver)],
                 callee.function, callee.upvalues, arg_count)
      [] callee.t = "NativeFunction" ->
            LET from == Len(S.stack) - arg_count
                args == SubSeq(S.stack, from + 1, Len(S.stack))
            IN  push([S EXCEPT !.stack = Truncate(@, Len(@) - (arg_count + 1))],
                     NativeResult(callee.native, args))
      [] OTHER -> Error(S, "Can only call functions and classes.")

call_value_from_stack(S, arg_count) ==
    Need(S, arg_count + 1, call_value(S, peek(S, arg_count), arg_count))

invoke_from_class(S, class, method_name, arg_count) ==
    LET methods == Deref(S, class).methods
    IN  IF method_name \in DOMAIN methods
        THEN call_value(S, methods[method_name], arg_count)
        ELSE Error(S, "Undefined property")

\* invoke looking in the class's methods before the instance's fields
invoke_methods_first(S, method_name, arg_count) ==
    Need(S, arg_count + 1,
         LET receiver == peek(S, arg_count)
         IN  IF receiver.t = "Instance"
             THEN LET instance == Deref(S, receiver.ref)
                  IN  IF method_name \in DOMAIN Deref(S, instance.class).methods
                         \/ method_name \notin DOMAIN instance.fields
                      THEN invoke_from_class(S, instance.class, method_name, arg_count)
                      ELSE call_value_from_stack(
                              [S EXCEPT !.stack[Len(S.stack) - arg_count] =
                                            instance.fields[method_name]],
                              arg_count)
             ELSE Error(S, "Only instances have methods."))

invoke(S, method_name, arg_count) ==
    Need(S, arg_count + 1,
         LET receiver == peek(S, arg_count)
         IN  IF receiver.t = "Instance"
             THEN LET instance == Deref(S, receiver.ref)
                  IN  IF method_name \in DOMAIN instance.fields
                      THEN call_value_from_stack(
                              [S EXCEPT !.stack[Len(S.stack) - arg_count] =
                                            instance.fields[method_name]],
                              arg_count)
                      ELSE invoke_from_class(S, instance.class, method_name, arg_count)
             ELSE Error(S, "Only instances have methods."))

bind_method(S, class, instance, name) ==
    LET methods == Deref(S, class).methods
    IN  IF name \in DOMAIN methods
        THEN LET found == methods[name]
             IN  CASE found.t = "Function" ->
                         push(S, Value_BoundMethod(instance, found.function, << >>))
                   [] found.t = "Closure" ->
                         push(S, Value_BoundMethod(instance, found.function,
                                                   found.upvalues))
                   [] OTHER -> Panic(S, "Expected function or closure.")
        ELSE Error(S, "Undefined property")

\* get_property looking in the class's methods before the instance's fields
get_property_methods_first(S, index) ==
    Need(S, 1,
         LET name == read_string(S, index)
             instance == peek(S, 0)
             S1 == pop(S)
         IN  IF instance.t = "Instance"
             THEN LET fields == Deref(S, instance.ref).fields
                      class == Deref(S, instance.ref).class
                  IN  IF name \in DOMAIN Deref(S, class).methods \/ name \notin DOMAIN fields
                      THEN bind_method(S1, class, instance.ref, name)
                      ELSE push(S1, fields[name])
             ELSE Error(S1, "Only instances have properties."))

get_property(S, index) ==
    Need(S, 1,
         LET name == read_string(S, index)
             instance == peek(S, 0)
             S1 == pop(S)
         IN  IF instance.t = "Instance"
             THEN LET fields == Deref(S, instance.ref).fields
                  IN  IF name \in DOMAIN fields
                      THEN push(S1, fields[name])
                      ELSE bind_method(S1, Deref(S, instance.ref).class, instance.ref, name)
             ELSE Error(S1, "Only instances have properties."))

\* set_property replacing the instance's fields by the one assigned
set_property_only_field(S, index) ==
    Need(S, 2,
         LET name == read_string(S, index)
             value == peek(S, 0)
             instance == peek(S, 1)
             S1 == pop(pop(S))
         IN  IF instance.t = "Instance"
             THEN push([S1 EXCEPT !.objects[instance.ref + 1].fields =
                                        Insert(EmptyMap, name, value)],
                       value)
             ELSE Error(S1, "Only instances have fields."))

set_property(S, index) ==
    Need(S, 2,
         LET name == read_string(S, index)
             value == peek(S, 0)
             instance == peek(S, 1)
             S1 == pop(pop(S))
         IN  IF instance.t = "Instance"
             THEN push([S1 EXCEPT !.objects[instance.ref + 1].fields =
                                        Insert(@, name, value)],
                       value)
             ELSE Error(S1, "Only instances have fields."))

get_super(S, index) ==
    Need(S, 2,
         LET this_val == peek(S, 0)
             super_val == peek(S, 1)
             S1 == pop(pop(S))
         IN  IF super_val.t = "Class" /\ this_val.t = "Instance"
             THEN bind_method(S1, super_val.ref, this_val.ref, read_string(S, index))
             ELSE Error(S1, "Superclass must be a class."))

define_method(S, index) ==
    Need(S, 2,
         LET value == peek(S, 0)
             class == peek(S, 1)
         IN  IF class.t = "Class"
             THEN [pop(S) EXCEPT !.objects[class.ref + 1].methods =
                                    Insert(@, read_string(S, index), value)]
             ELSE Panic(pop(S), "Expected class."))

get_global(S, index) ==
    LET name == read_string(S, index)
    IN  IF name \in DOMAIN globals(S)
        THEN push(S, globals(S)[name])
        ELSE Error(S, "Undefined variable")

define_global(S, index) ==
    Need(S, 1, SetGlobals(pop(S), Insert(globals(S), read_string(S, index), peek(S, 0))))

set_global(S, index) ==
    LET name == read_string(S, index)
    IN  IF name \in DOMAIN globals(S)
        THEN Need(S, 1, SetGlobals(S, Insert(globals(S), name, peek(S, 0))))
        ELSE Error(S, "Undefined variable")

get_local(S, index) ==
    IF frame(S).base + index < Len(S.stack)
    THEN push(S, At(S.stack, frame(S).base + index))
    ELSE Panic(S, "index out of bounds")

set_local(S, index) ==
    Need(S, 1,
         IF frame(S).base + index < Len(S.stack)
         THEN [S EXCEPT !.stack[frame(S).base + index + 1] = peek(S, 0)]
         ELSE Panic(S, "index out of bounds"))

\* a capture_upvalue that never looks for an existing registry
capture_upvalue_fresh(S, index) ==
    [S |-> [alloc(S, UpvalueRegistry_Open(index))
               EXCEPT !.open_upvalues = Append(@, AllocRef(S))],
     ref |-> AllocRef(S)]

\* capture_upvalue: the state after it and the registry it returns.  The
\* pattern `UpvalueRegistry::Open(index)` of the matches! binds a fresh
\* `index`, so the search stops at the first open registry of the list.
capture_upvalue(S, index) ==
    LET opens == {i \in 1..Len(S.open_upvalues) :
                     Deref(S, S.open_upvalues[i]).kind = "Open"}
    IN  IF opens # {}
        THEN [S |-> S,
              ref |-> S.open_upvalues[CHOOSE i \in opens : \A j \in opens : i <= j]]
        ELSE [S |-> [alloc(S, UpvalueRegistry_Open(index))
                        EXCEPT !.open_upvalues = Append(@, AllocRef(S))],
              ref |-> AllocRef(S)]

RECURSIVE capture_all(_, _, _)
\* the loop of make_closure over the prototype's upvalues
capture_all(S, upvals, upvalues) ==
    IF upvals = << >> \/ ~Running(S)
    THEN [S |-> S, upvalues |-> upvalues]
    ELSE IF Head(upvals).is_local
         THEN LET c == capture_upvalue(S, frame(S).base + Head(upvals).index)
              IN  capture_all(c.S, Tail(upvals), Append(upvalues, c.ref))
         ELSE IF Head(upvals).index < Len(frame(S).upvalues)
              THEN capture_all(S, Tail(upvals),
                               Append(upvalues, At(frame(S).upvalues, Head(upvals).index)))
              ELSE [S |-> Panic(S, "index out of bounds"), upvalues |-> upvalues]

make_closure(S, index) ==
    LET constant == read_constant(S, index)
    IN  IF constant.t = "Function"
        THEN LET c == capture_all(S, constant.function.upvalues, << >>)
             IN  IF Running(c.S)
                 THEN push(c.S, Value_Closure(constant.function, c.upvalues))
                 ELSE c.S
        ELSE Panic(S, "Value is not a function.")

get_upvalue(S, index) ==
    LET upvalue == Deref(S, At(frame(S).upvalues, index))
    IN  IF upvalue.kind = "Open"
        THEN IF upvalue.index < Len(S.stack)
             THEN push(S, At(S.stack, upvalue.index))
             ELSE Panic(S, "index out of bounds")
        ELSE push(S, upvalue.value)

set_upvalue(S, index) ==
    Need(S, 1,
         LET value == peek(S, 0)
             upvalue_ref == At(frame(S).upvalues, index)
             upvalue == Deref(S, upvalue_ref)
         IN  IF upvalue.kind = "Open"
             THEN IF upvalue.index < Len(S.stack)
                  THEN [S EXCEPT !.stack[upvalue.index + 1] = value]
                  ELSE Panic(S, "index out of bounds")
             ELSE SetObject(S, upvalue_ref, UpvalueRegistry_Closed(value)))

RECURSIVE close_upvalues(_, _)
close_upvalues(S, index) ==
    IF S.open_upvalues = << >> \/ ~Running(S)
    THEN S
    ELSE LET upvalue_ref == Last(S.open_upvalues)
             upvalue == Deref(S, upvalue_ref)
         IN  IF upvalue.kind # "Open"
             THEN Panic(S, "Expected open upvalue.")
             ELSE IF upvalue.index <= index
                  THEN S
                  ELSE IF upvalue.index >= Len(S.stack)
                       THEN Panic([S EXCEPT !.open_upvalues = Front(@)],
                                  "index out of bounds")
                       ELSE close_upvalues(
                               SetObject([S EXCEPT !.open_upvalues = Front(@)],
                                         upvalue_ref,
                                         UpvalueRegistry_Closed(At(S.stack, upvalue.index))),
                               index)

\* the binary_op! macro of VM::run
binary_op(S, op) ==
    Need(S, 2,
         LET b == peek(S, 0)
             a == peek(S, 1)
             S1 == pop(pop(S))
         IN  IF a.t = "Number" /\ b.t = "Number"
             THEN push(S1, CASE op = "Greater" -> Value_Boolean(a.n > b.n)
                             [] op = "Less" -> Value_Boolean(a.n < b.n)
                             [] op = "Subtract" -> Value_Number(a.n - b.n)
                             [] op = "Multiply" -> Value_Number(a.n * b.n))
             ELSE Error(S1, "Invalid operands for binary operation."))

\* the arm Instruction::Add of VM::run
add(S) ==
    Need(S, 2,
         LET b == peek(S, 0)
             a == peek(S, 1)
             S1 == pop(pop(S))
         IN  CASE a.t = "Number" /\ b.t = "Number" -> push(S1, Value_Number(a.n + b.n))
               [] a.t = "String" /\ b.t = "String" -> push(S1, Value_String(a.s \o b.s))
               [] a.t = "String" /\ b.t # "String" ->
                     push(S1, Value_String(a.s \o Display(b)))
               [] OTHER -> Error(S1, "Operands must be two numbers or two strings."))

\* the arm Instruction::Jump of VM::run
jump(S, offset) == [S EXCEPT !.frames[Len(S.frames)].ip = @ + offset]

\* JumpIfFalse popping the value it tests
jump_if_false_popping(S, offset) ==
    Need(S, 1, IF is_falsey(peek(S, 0)) THEN jump(pop(S), offset) ELSE pop(S))

\* the arm Instruction::JumpIfFalse of VM::run
jump_if_false(S, offset) ==
    Need(S, 1, IF is_falsey(peek(S, 0)) THEN jump(S, offset) ELSE S)

\* the arm Instruction::Loop of VM::run
loop(S, offset) == [S EXCEPT !.frames[Len(S.frames)].ip = @ - offset]

\* import_module after self.interpret(program.clone()) has returned, and the
\* assignment of its result to last_module by the arm Instruction::ImportModule
import_module_returns(S) ==
    LET caller == Last(S.runs)
    IN  [S EXCEPT !.frames = caller.frames,
                  !.stack = caller.stack,
                  !.last_module = <<[name |-> <<caller.name>>,
                                     variables |-> Deref(S, caller.module).variables]>>,
                  !.runs = Front(@)]

\* the arm Instruction::ImportVariable of VM::run
import_variable(S, index) ==
    IF S.last_module = << >>
    THEN Panic(S, "unwrap on None")
    ELSE IF read_string(S, index) \in DOMAIN Head(S.last_module).variables
         THEN push(S, Head(S.last_module).variables[read_string(S, index)])
         ELSE Error(S, "Could not find a variable in module")

\* run_returns without `self.frames = frames`
run_returns_frames_lost(S, result) ==
    IF S.runs = << >>
    THEN [S EXCEPT !.status = "done"]
    ELSE IF "module" \in DOMAIN Last(S.runs)
    THEN import_module_returns(S)
    ELSE [S EXCEPT !.stack = Truncate(S.stack, Last(S.runs).l),
                   !.output = Append(@, Display(result)),
                   !.runs = Front(@)]

\* VM::run returns result to the code that called it: VM::interpret (the
\* program ends), or the arm Instruction::Print, which restores the frames,
\* truncates the stack and prints the result
run_returns(S, result) ==
    IF S.runs = << >>
    THEN [S EXCEPT !.status = "done"]
    ELSE IF "module" \in DOMAIN Last(S.runs)
    THEN import_module_returns(S)
    ELSE [S EXCEPT !.frames = Last(S.runs).frames,
                   !.stack = Truncate(S.stack, Last(S.runs).l),
                   !.output = Append(@, Display(result)),
                   !.runs = Front(@)]

\* the arm Instruction::Return of VM::run
return(S) ==
    Need(S, 1,
         LET base == frame(S).base
             result == peek(S, 0)
             S1 == close_upvalues(pop(S), base)
             S2 == [S1 EXCEPT !.frames = Front(@)]
         IN  IF ~Running(S1) THEN S1
             ELSE IF S2.frames = << >>
                  THEN run_returns(pop(S2), result)
                  ELSE push([S2 EXCEPT !.stack = Truncate(@, base)], result))

\* the arm Instruction::Print of VM::run, up to its call of VM::run
print(S) ==
    Need(S, 1,
         LET value == peek(S, 0)
             S1 == pop(S)
         IN  IF value.t = "Instance"
             THEN IF "toString" \in DOMAIN Deref(S, Deref(S, value.ref).class).methods
                  THEN LET S2 == invoke(
                                    push([S1 EXCEPT !.runs = Append(@,
                                                        [frames |-> S1.frames,
                                                         l |-> Len(S1.stack),
                                                         before |-> S.stack]),
                                                    !.frames = << >>],
                                         value),
                                    "toString", 0)
                       IN  IF Running(S2) /\ S2.frames = << >>
                           THEN Panic(S2, "unwrap on None")
                           ELSE S2
                  ELSE S1
             ELSE [S1 EXCEPT !.output = Append(@, Display(value))])

\* Inherit moving the methods: the superclass loses what the subclass gains
inherit_moving(S) ==
    Need(S, 2,
         LET subclass == peek(S, 0)
             superclass == peek(S, 1)
             S1 == pop(S)
         IN  IF subclass.t = "Class" /\ superclass.t = "Class"
             THEN [S1 EXCEPT !.objects[subclass.ref + 1].methods =
                                    Deref(S, superclass.ref).methods,
                             !.objects[superclass.ref + 1].methods = EmptyMap]
             ELSE Error(S1, "Superclass must be a class."))

\* Inherit peeking at the subclass instead of popping it
inherit_keeping(S) ==
    Need(S, 2,
         LET subclass == peek(S, 0)
             superclass == peek(S, 1)
         IN  IF subclass.t = "Class" /\ superclass.t = "Class"
             THEN LET super_methods == Deref(S, superclass.ref).methods
                  IN  [S EXCEPT !.objects[subclass.ref + 1].methods =
                                   [x \in DOMAIN @ \cup DOMAIN super_methods |->
                                       IF x \in DOMAIN super_methods
                                       THEN super_methods[x] ELSE @[x]]]
             ELSE Error(pop(S), "Superclass must be a class."))

\* the arm Instruction::Inherit of VM::run
inherit(S) ==
    Need(S, 2,
         LET subclass == peek(S, 0)
             superclass == peek(S, 1)
             S1 == pop(S)
         IN  IF subclass.t = "Class" /\ superclass.t = "Class"
             THEN LET super_methods == Deref(S, superclass.ref).methods
                  IN  [S1 EXCEPT !.objects[subclass.ref + 1].methods =
                                    [x \in DOMAIN @ \cup DOMAIN super_methods |->
                                        IF x \in DOMAIN super_methods
                                        THEN super_methods[x] ELSE @[x]]]
             ELSE Error(S1, "Superclass must be a class."))

\* the arm Instruction::SuperInvoke of VM::run
super_invoke(S, index, arg_count) ==
    Need(S, 1,
         LET superclass == peek(S, 0)
             S1 == pop(S)
         IN  IF superclass.t = "Class"
             THEN invoke_from_class(S1, superclass.ref, read_string(S, index), arg_count)
             ELSE Error(S1, "Only classes have superclass."))

\* the arm Instruction::CloseUpvalue of VM::run
close_upvalue(S) == Need(S, 1, pop(close_upvalues(S, Len(S.stack) - 1)))

-----------------------------------------------------------------------------
(* Programs: the syntax trees handed to the compiler *)

Num(n) == [k |-> "number", n |-> n]

Str(str) == [k |-> "string", s |-> str]

Lit(v) == [k |-> "literal", v |-> v]

Var(name) == [k |-> "variable", name |-> name, value |-> NoExpr]

Assign(name, value) == [k |-> "variable", name |-> name, value |-> value]

This == [k |-> "this"]

Unary(operator, right) == [k |-> "unary", operator |-> operator, right |-> right]

Binary(left, operator, right) ==
    [k |-> "binary", operator |-> operator, left |-> left, right |-> right]

CallE(callee, args) == [k |-> "call", callee |-> callee, args |-> args]

GetP(object, name) ==
    [k |-> "dot", object |-> object, name |-> name, mode |-> "get",
     value |-> NoExpr, args |-> << >>]

SetP(object, name, value) ==
    [k |-> "dot", object |-> object, name |-> name, mode |-> "set",
     value |-> value, args |-> << >>]

InvokeE(object, name, args) ==
    [k |-> "dot", object |-> object, name |-> name, mode |-> "invoke",
     value |-> NoExpr, args |-> args]

SuperCall(name, args) == [k |-> "super", name |-> name, call |-> TRUE, args |-> args]

SuperGet(name) == [k |-> "super", name |-> name, call |-> FALSE, args |-> << >>]

LetS(name, value) == [k |-> "let", name |-> name, value |-> value]

FnS(name, params, body) == [k |-> "fn", name |-> name, params |-> params, body |-> body]

MethodD(name, params, body) == [name |-> name, params |-> params, body |-> body]

ClassS(name, superclass, ms) ==
    [k |-> "class", name |-> name, superclass |-> superclass, methods |-> ms]

PrintS(value) == [k |-> "print", value |-> value]

ReturnS(value) == [k |-> "return", value |-> value]

ExprS(value) == [k |-> "expr", value |-> value]

BlockS(body) == [k |-> "block", body |-> body]

And(left, right) == [k |-> "and", left |-> left, right |-> right]

Or(left, right) == [k |-> "or", left |-> left, right |-> right]

\* if (cond) then else otherwise; NoExpr for no else
IfS(cond, then, otherwise) ==
    [k |-> "if", cond |-> cond, then |-> then, else |-> otherwise]

WhileS(cond, body) == [k |-> "while", cond |-> cond, body |-> body]

DoS(body, cond) == [k |-> "do", body |-> body, cond |-> cond]

\* for (init; cond; incr) body, with NoExpr for a clause that is absent
ForS(init, cond, incr, body) ==
    [k |-> "for", init |-> init, cond |-> cond, incr |-> incr, body |-> body]

\* for (let name in iterable) body
ForInS(name, iterable, body) ==
    [k |-> "for_in", name |-> name, iterable |-> iterable, body |-> body]

\* [e1, e2, ...]
ArrayE(elements) == [k |-> "array", elements |-> elements]

\* import "name" for v1 as a1, v2, ...; an empty alias for none
ImportS(name, vs) == [k |-> "import", name |-> name, vars |-> vs]

ImportV(name, as) == [name |-> name, as |-> as]

\* fn make() { let i = 0; fn inc() { i = i + 1; return i; } return inc; }
MakeCounter ==
    FnS("make", << >>,
        <<LetS("i", Num(0)),
          FnS("inc", << >>,
              <<ExprS(Assign("i", Binary(Var("i"), "+", Num(1)))), ReturnS(Var("i"))>>),
          ReturnS(Var("inc"))>>)

\* class A { greet() { print "A"; } }
ClassA == ClassS("A", "", <<MethodD("greet", << >>, <<PrintS(Str("A"))>>)>>)

\* class B < A { greet() { super.greet(); print "B"; } }
ClassB ==
    ClassS("B", "A",
           <<MethodD("greet", << >>,
                     <<ExprS(SuperCall("greet", << >>)), PrintS(Str("B"))>>)>>)

\* class Box { init(v) { this.v = v; } toString() { return "Box(" + this.v + ")"; } }
ClassBox ==
    ClassS("Box", "",
           <<MethodD("init", <<"v">>, <<ExprS(SetP(This, "v", Var("v")))>>),
             MethodD("toString", << >>,
                     <<ReturnS(Binary(Binary(Str("Box("), "+", GetP(This, "v")),
                                      "+", Str(")")))>>)>>)

\* one run of the driver: the arguments given to main and the readable files
Run(family, args, files, expect) ==
    [family |-> family, args |-> args, files |-> files, expect |-> expect]

\* the run of `horst /dir/haupt.horst` where that file holds src
Program(family, src, expect) ==
    Run(family, 2, [f \in {Path(TRUE, <<"dir", "haupt.horst">>)} |-> src], expect)

\* the closure programs: scenario 3 of the specification and variations
CounterSources ==
    <<Program("counter",
              <<MakeCounter, LetS("c", CallE(Var("make"), << >>)),
                PrintS(CallE(Var("c"), << >>)), PrintS(CallE(Var("c"), << >>)),
                PrintS(CallE(Var("c"), << >>))>>,
              <<"1", "2", "3">>),
      Program("counter",
              <<MakeCounter, LetS("c", CallE(Var("make"), << >>)),
                LetS("d", CallE(Var("make"), << >>)),
                PrintS(CallE(Var("c"), << >>)), PrintS(CallE(Var("d"), << >>)),
                PrintS(CallE(Var("c"), << >>)), PrintS(CallE(Var("d"), << >>))>>,
              <<"1", "1", "2", "2">>),
      \* make() is called where another captured local is live
      Program("counter",
              <<MakeCounter,
                FnS("outer", << >>,
                    <<LetS("a", Num(10)),
                      FnS("getA", << >>, <<ReturnS(Var("a"))>>),
                      LetS("c", CallE(Var("make"), << >>)),
                      PrintS(CallE(Var("c"), << >>)), PrintS(CallE(Var("c"), << >>)),
                      ReturnS(Var("getA"))>>),
                LetS("g", CallE(Var("outer"), << >>)),
                PrintS(CallE(Var("g"), << >>))>>,
              <<"1", "2", "10">>)>>

\* the super programs: scenario 4 of the specification
SuperSources ==
    <<Program("super",
              <<ClassA, ClassB, ExprS(InvokeE(CallE(Var("B"), << >>), "greet", << >>))>>,
              <<"A", "B">>)>>

\* the toString programs: scenario 6 of the specification
ToStringSources ==
    <<Program("toString",
              <<ClassBox, PrintS(CallE(Var("Box"), <<Num(7)>>))>>,
              <<"Box(7)">>)>>

\* class Tag { toString() { let t = "tag"; return t; } }
ClassTag ==
    ClassS("Tag", "",
           <<MethodD("toString", << >>, <<LetS("t", Str("tag")), ReturnS(Var("t"))>>)>>)

\* Print of an instance with toString inside a function, below other values
ToStringInFunction ==
    Program("toString",
            <<ClassBox, ClassTag,
              FnS("show", <<"b">>,
                  <<LetS("n", Num(1)), PrintS(Var("b")), PrintS(CallE(Var("Tag"), << >>)),
                    ReturnS(Var("n"))>>),
              PrintS(CallE(Var("show"), <<CallE(Var("Box"), <<Num(8)>>)>>))>>,
            <<"Box(8)", "tag", "1">>)

\* class P { m() {} }
ClassP == ClassS("P", "", <<MethodD("m", << >>, << >>)>>)

\* Print of every kind of value; the last is an instance without toString
PrintSources ==
    <<Program("print",
              <<ClassP, FnS("f", << >>, << >>),
                PrintS(Num(1)), PrintS(Str("s")), PrintS(Lit("True")), PrintS(Lit("Nil")),
                PrintS(Var("f")), PrintS(Var("floor")), PrintS(Var("P")),
                PrintS(GetP(CallE(Var("P"), << >>), "m")),
                PrintS(CallE(Var("P"), << >>)), PrintS(Num(2))>>,
              <<"1", "s", "true", "nil", "<function>", "<native fn>", "<class>",
                "<function>", "<class instance>", "2">>)>>

\* Add on every pair of operand kinds
AddSources ==
    <<Program("add",
              <<PrintS(Binary(Num(1), "+", Num(2))), PrintS(Binary(Str("a"), "+", Str("b"))),
                PrintS(Binary(Str("a"), "+", Num(1))), PrintS(Binary(Str("a"), "+", Lit("Nil"))),
                PrintS(Binary(Str("a"), "+", Lit("True"))),
                PrintS(Binary(Lit("True"), "+", Str("a")))>>,
              <<"3", "ab", "a1", "anil", "atrue", "truea">>),
      Program("add", <<PrintS(Binary(Num(1), "+", Str("a")))>>, <<"1a">>),
      Program("add", <<PrintS(Binary(Lit("Nil"), "+", Num(1)))>>, << >>),
      Program("add", <<PrintS(Binary(Lit("False"), "+", Lit("Nil")))>>, << >>)>>

\* fn f(a, b) { return a + b; }
FnF == FnS("f", <<"a", "b">>, <<ReturnS(Binary(Var("a"), "+", Var("b")))>>)

\* calls with as many, fewer and more arguments than parameters
CallSources ==
    <<Program("call",
              <<FnF, PrintS(CallE(Var("f"), <<Num(1), Num(2)>>)),
                ExprS(CallE(Var("f"), <<Num(1)>>))>>,
              <<"3">>),
      Program("call",
              <<FnF, ExprS(CallE(Var("f"), <<Num(1), Num(2), Num(3)>>))>>, << >>),
      Program("call",
              <<MakeCounter, LetS("c", CallE(Var("make"), << >>)),
                PrintS(CallE(Var("c"), << >>)), PrintS(CallE(Var("c"), <<Num(1)>>))>>,
              <<"1">>)>>

\* initializers: implicit end of body, bare `return;`, and `return <expr>;`
InitSources ==
    <<Program("init",
              <<ClassS("Pt", "",
                       <<MethodD("init", <<"x">>, <<ExprS(SetP(This, "x", Var("x")))>>)>>),
                LetS("p", CallE(Var("Pt"), <<Num(3)>>)), PrintS(GetP(Var("p"), "x")),
                PrintS(GetP(InvokeE(Var("p"), "init", <<Num(5)>>), "x"))>>,
              <<"3", "5">>),
      Program("init",
              <<ClassS("Q", "",
                       <<MethodD("init", <<"x">>,
                                 <<ExprS(SetP(This, "x", Var("x"))), ReturnS(NoExpr),
                                   ExprS(SetP(This, "x", Num(0)))>>)>>),
                LetS("q", CallE(Var("Q"), <<Num(4)>>)), PrintS(GetP(Var("q"), "x"))>>,
              <<"4">>),
      Program("init_returns_value",
              <<ClassS("R", "", <<MethodD("init", << >>, <<ReturnS(Num(1))>>)>>),
                PrintS(CallE(Var("R"), << >>))>>,
              << >>)>>

\* class C { m() { return 1; } }
ClassC == ClassS("C", "", <<MethodD("m", << >>, <<ReturnS(Num(1))>>)>>)

\* fields and methods read and written through GetProperty and SetProperty
PropertySources ==
    <<Program("property",
              <<ClassC, LetS("o", CallE(Var("C"), << >>)),
                ExprS(SetP(Var("o"), "f", Num(5))), PrintS(GetP(Var("o"), "f")),
                PrintS(InvokeE(Var("o"), "m", << >>)),
                LetS("b", GetP(Var("o"), "m")), PrintS(CallE(Var("b"), << >>)),
                ExprS(SetP(Var("o"), "m", Num(7))), PrintS(GetP(Var("o"), "m")),
                PrintS(GetP(Var("o"), "zz"))>>,
              <<"5", "1", "1", "7">>),
      Program("property",
              <<ClassC, LetS("p", CallE(Var("C"), << >>)), LetS("q", CallE(Var("C"), << >>)),
                ExprS(SetP(Var("p"), "f", Num(1))), ExprS(SetP(Var("q"), "f", Num(2))),
                ExprS(SetP(Var("p"), "g", Num(3))),
                PrintS(SetP(Var("p"), "f", Num(4))),
                PrintS(Binary(Binary(GetP(Var("p"), "f"), "+", GetP(Var("q"), "f")),
                              "+", GetP(Var("p"), "g")))>>,
              <<"4", "9">>),
      Program("property", <<LetS("n", Num(1)), PrintS(GetP(Var("n"), "x"))>>, << >>),
      Program("property",
              <<LetS("n", Str("s")), ExprS(SetP(Var("n"), "x", Num(2)))>>, << >>)>>

\* class S { a() { return 1; } b() { return 2; } }
ClassSuper ==
    ClassS("S", "",
           <<MethodD("a", << >>, <<ReturnS(Num(1))>>),
             MethodD("b", << >>, <<ReturnS(Num(2))>>)>>)

\* class T < S { b() { return 3; } c() { return 4; } }
ClassSub ==
    ClassS("T", "S",
           <<MethodD("b", << >>, <<ReturnS(Num(3))>>),
             MethodD("c", << >>, <<ReturnS(Num(4))>>)>>)

\* inheritance with an overriding method, in a block, and from a non-class
InheritSources ==
    <<Program("inherit",
              <<ClassSuper, ClassSub, LetS("t", CallE(Var("T"), << >>)),
                PrintS(InvokeE(Var("t"), "a", << >>)), PrintS(InvokeE(Var("t"), "b", << >>)),
                PrintS(InvokeE(Var("t"), "c", << >>)),
                PrintS(InvokeE(CallE(Var("S"), << >>), "b", << >>))>>,
              <<"1", "3", "4", "2">>),
      Program("inherit",
              <<BlockS(<<ClassSuper, ClassSub,
                         PrintS(InvokeE(CallE(Var("T"), << >>), "b", << >>)),
                         PrintS(InvokeE(CallE(Var("T"), << >>), "a", << >>)),
                         PrintS(InvokeE(CallE(Var("S"), << >>), "b", << >>))>>)>>,
              <<"3", "1", "2">>),
      Program("inherit_non_class",
              <<LetS("N", Num(1)), ClassS("U", "N", << >>), PrintS(Str("unreachable"))>>,
              << >>)>>

\* the remaining instructions: assignment to globals and locals, comparison,
\* arithmetic, negation, and `super.name` without a call
OtherSources ==
    <<Program("other",
              <<LetS("x", Num(1)), ExprS(Assign("x", Num(2))),
                BlockS(<<LetS("y", Num(3)),
                         ExprS(Assign("y", Binary(Var("y"), "-", Num(1)))),
                         PrintS(Binary(Var("y"), "*", Num(2))),
                         PrintS(Binary(Var("y"), ">", Num(1))),
                         PrintS(Binary(Var("y"), "<", Num(1)))>>),
                PrintS(Binary(Var("x"), "==", Num(2))), PrintS(Unary("!", Lit("False"))),
                PrintS(Unary("-", Var("x"))), PrintS(Binary(Var("x"), "!=", Num(3)))>>,
              <<"4", "true", "false", "true", "true", "-2", "true">>),
      Program("other",
              <<ClassA,
                ClassS("B", "A",
                       <<MethodD("greet", << >>,
                                 <<LetS("g", SuperGet("greet")),
                                   ExprS(CallE(Var("g"), << >>))>>)>>),
                ExprS(InvokeE(CallE(Var("B"), << >>), "greet", << >>))>>,
              <<"A">>)>>

\* the file /dir/name
File(name) == Path(TRUE, <<"dir", name>>)

\* the files of a run: /dir/haupt.horst holding main and /dir/a.horst,
\* /dir/b.horst holding a and b
Files3(main, a, b) ==
    [f \in {File("haupt.horst"), File("a.horst"), File("b.horst")} |->
        IF f = File("haupt.horst") THEN main ELSE IF f = File("a.horst") THEN a ELSE b]

ImportSources ==
    <<\* import "a.horst"; import "a.horst"; print "m";      a.horst: print "a";
      Run("import", 2,
          Files3(<<ImportS("a.horst", << >>), ImportS("a.horst", << >>),
                   PrintS(Str("m"))>>,
                 <<PrintS(Str("a"))>>, << >>),
          <<"a", "m">>),
      \* import "a.horst" for x, y as z; print x + z; import "b.horst" for f; print f();
      \* a.horst: let x = 5; let y = 2; print "a";   b.horst: fn f() { return 1; }
      Run("import", 2,
          Files3(<<ImportS("a.horst", <<ImportV("x", ""), ImportV("y", "z")>>),
                   PrintS(Binary(Var("x"), "+", Var("z"))),
                   ImportS("b.horst", <<ImportV("f", "")>>),
                   PrintS(CallE(Var("f"), << >>))>>,
                 <<LetS("x", Num(5)), LetS("y", Num(2)), PrintS(Str("a"))>>,
                 <<FnS("f", << >>, <<ReturnS(Num(1))>>)>>),
          <<"a", "7", "1">>),
      \* import "a.horst"; import "b.horst"; print "m";
      \* a.horst: print "a";      b.horst: import "a.horst"; print "b";
      Run("import", 2,
          Files3(<<ImportS("a.horst", << >>), ImportS("b.horst", << >>),
                   PrintS(Str("m"))>>,
                 <<PrintS(Str("a"))>>,
                 <<ImportS("a.horst", << >>), PrintS(Str("b"))>>),
          <<"a", "b", "m">>),
      \* import "a.horst" for x; print x;      a.horst: let y = 1;
      Run("import_fault", 2,
          Files3(<<ImportS("a.horst", <<ImportV("x", "")>>), PrintS(Var("x"))>>,
                 <<LetS("y", Num(1))>>, << >>),
          << >>),
      \* import "c.horst";      (no such file)
      Run("import_fault", 2,
          Files3(<<ImportS("c.horst", << >>)>>, << >>, << >>),
          << >>),
      \* import "a.horst";      a.horst: return 1;
      Run("import_fault", 2,
          Files3(<<ImportS("a.horst", << >>)>>, <<ReturnS(Num(1))>>, << >>),
          << >>)>>

CycleSources ==
    <<\* print "m"; import "haupt.horst";
      Run("cycle", 2,
          Files3(<<PrintS(Str("m")), ImportS("haupt.horst", << >>)>>, << >>, << >>),
          <<"m">>),
      \* print "m"; import "a.horst";      a.horst: print "a"; import "haupt.horst";
      Run("cycle", 2,
          Files3(<<PrintS(Str("m")), ImportS("a.horst", << >>)>>,
                 <<PrintS(Str("a")), ImportS("haupt.horst", << >>)>>, << >>),
          <<"m", "a">>),
      \* import "a.horst";   a.horst: print "a"; import "b.horst";
      \* b.horst: print "b"; import "a.horst";
      Run("cycle", 2,
          Files3(<<ImportS("a.horst", << >>)>>,
                 <<PrintS(Str("a")), ImportS("b.horst", << >>)>>,
                 <<PrintS(Str("b")), ImportS("a.horst", << >>)>>),
          <<"a", "b">>)>>

DriverSources ==
    <<\* horst
      Run("usage", 1, Files3(<<PrintS(Num(1))>>, << >>, << >>), << >>),
      \* horst /dir/haupt.horst extra
      Run("usage", 3, Files3(<<PrintS(Num(1))>>, << >>, << >>), << >>),
      \* horst /dir/haupt.horst, which cannot be read
      Run("unreadable", 2, [f \in {File("a.horst")} |-> <<PrintS(Num(1))>>], << >>),
      \* print 1; return 2;      (return at top level)
      Program("compile_error", <<PrintS(Num(1)), ReturnS(Num(2))>>, << >>),
      \* print 1; { let a = 1; let a = 2; }      (a declared twice in a scope)
      Program("compile_error",
              <<PrintS(Num(1)), BlockS(<<LetS("a", Num(1)), LetS("a", Num(2))>>)>>,
              << >>),
      \* print 1; fn f() { print this; }      (this outside of a class)
      Program("compile_error",
              <<PrintS(Num(1)), FnS("f", << >>, <<PrintS(This)>>)>>,
              << >>),
      \* print 1; { let a = a; }      (a local read in its own initializer)
      Program("compile_error",
              <<PrintS(Num(1)), BlockS(<<LetS("a", Var("a"))>>)>>,
              << >>)>>

\* print "before"; <fault>; print "after";
Fault(s) == Program("fault", <<PrintS(Str("before")), s, PrintS(Str("after"))>>,
                    <<"before">>)

FaultSources ==
    <<Fault(PrintS(Unary("-", Lit("True")))),
      Fault(PrintS(Binary(Num(1), "<", Str("a")))),
      Fault(PrintS(Binary(Lit("Nil"), "+", Num(1)))),
      Fault(PrintS(GetP(Num(1), "x"))),
      Fault(ExprS(SetP(Str("s"), "x", Num(1)))),
      Fault(ExprS(CallE(Num(1), << >>))),
      Fault(ExprS(InvokeE(Num(1), "m", << >>))),
      Fault(PrintS(Var("undefined"))),
      Fault(ExprS(Assign("undefined", Num(1)))),
      \* fn f(a) {} f();
      Fault(BlockS(<<FnS("f", <<"a">>, << >>), ExprS(CallE(Var("f"), << >>))>>)),
      \* class C {} C().x;   C().m();   C(1);
      Fault(BlockS(<<ClassS("C", "", << >>),
                     PrintS(GetP(CallE(Var("C"), << >>), "x"))>>)),
      Fault(BlockS(<<ClassS("C", "", << >>),
                     ExprS(InvokeE(CallE(Var("C"), << >>), "m", << >>))>>)),
      Fault(BlockS(<<ClassS("C", "", << >>), ExprS(CallE(Var("C"), <<Num(1)>>))>>)),
      \* class C { init(a) {} } C();
      Fault(BlockS(<<ClassS("C", "", <<MethodD("init", <<"a">>, << >>)>>),
                     ExprS(CallE(Var("C"), << >>))>>))>>

\* let a = nil; let b = nil; let n = 0;
\* while (n < 2) { let x = n; fn g() { body } a = b; b = g; n = n + 1; }
LoopClosures(body) ==
    <<LetS("a", Lit("Nil")), LetS("b", Lit("Nil")), LetS("n", Num(0)),
      WhileS(Binary(Var("n"), "<", Num(2)),
             BlockS(<<LetS("x", Var("n")),
                      FnS("g", << >>, body),
                      ExprS(Assign("a", Var("b"))),
                      ExprS(Assign("b", Var("g"))),
                      ExprS(Assign("n", Binary(Var("n"), "+", Num(1))))>>))>>

LoopSources ==
    <<\* g: return x;      print a(); print b();
      Program("loop",
              LoopClosures(<<ReturnS(Var("x"))>>)
                  \o <<PrintS(CallE(Var("a"), << >>)), PrintS(CallE(Var("b"), << >>))>>,
              <<"0", "1">>),
      \* g: x = x + 10; return x;      print a(); print b(); print a();
      Program("loop",
              LoopClosures(<<ExprS(Assign("x", Binary(Var("x"), "+", Num(10)))),
                             ReturnS(Var("x"))>>)
                  \o <<PrintS(CallE(Var("a"), << >>)), PrintS(CallE(Var("b"), << >>)),
                       PrintS(CallE(Var("a"), << >>))>>,
              <<"10", "11", "20">>),
      \* the same loop inside a function: fn run() { ...; print a(); print b(); } run();
      Program("loop",
              <<FnS("run", << >>,
                    LoopClosures(<<ReturnS(Var("x"))>>)
                        \o <<PrintS(CallE(Var("a"), << >>)),
                             PrintS(CallE(Var("b"), << >>))>>),
                ExprS(CallE(Var("run"), << >>))>>,
              <<"0", "1">>)>>

\* fn t(x) { print x; return true; }
FnT == FnS("t", <<"x">>, <<PrintS(Var("x")), ReturnS(Lit("True"))>>)

\* fn f(x) { print x; return false; }
FnFalse == FnS("f", <<"x">>, <<PrintS(Var("x")), ReturnS(Lit("False"))>>)

LogicSources ==
    <<\* print f(1) and t(2); print t(3) and f(4); print f(5) or t(6); print t(7) or f(8);
      Program("logic",
              <<FnT, FnFalse,
                PrintS(And(CallE(Var("f"), <<Num(1)>>), CallE(Var("t"), <<Num(2)>>))),
                PrintS(And(CallE(Var("t"), <<Num(3)>>), CallE(Var("f"), <<Num(4)>>))),
                PrintS(Or(CallE(Var("f"), <<Num(5)>>), CallE(Var("t"), <<Num(6)>>))),
                PrintS(Or(CallE(Var("t"), <<Num(7)>>), CallE(Var("f"), <<Num(8)>>)))>>,
              <<"1", "false", "3", "4", "false", "5", "6", "true", "7", "true">>),
      \* print nil and 1; print 0 and 2; print nil or "s"; print "a" or 1;
      \* print false or nil; print 1 and nil or 3; if (nil or 0) print "then"; else print "else";
      Program("logic",
              <<PrintS(And(Lit("Nil"), Num(1))), PrintS(And(Num(0), Num(2))),
                PrintS(Or(Lit("Nil"), Str("s"))), PrintS(Or(Str("a"), Num(1))),
                PrintS(Or(Lit("False"), Lit("Nil"))),
                PrintS(Or(And(Num(1), Lit("Nil")), Num(3))),
                IfS(Or(Lit("Nil"), Num(0)), PrintS(Str("then")), PrintS(Str("else")))>>,
              <<"nil", "2", "s", "a", "nil", "3", "then">>),
      \* fn k() { let u = 1; let v = (u and nil) or u; return v; } print k();
      \* if (false and k()) print "then";
      Program("logic",
              <<FnS("k", << >>,
                    <<LetS("u", Num(1)),
                      LetS("v", Or(And(Var("u"), Lit("Nil")), Var("u"))),
                      ReturnS(Var("v"))>>),
                PrintS(CallE(Var("k"), << >>)),
                IfS(And(Lit("False"), CallE(Var("k"), << >>)), PrintS(Str("then")),
                    NoExpr)>>,
              <<"1">>)>>

\* the upvalue programs: closures that capture locals of one frame, of a
\* block, and the receiver of a method
UpvalueSources ==
    <<\* fn outer() { let a = 1; let b = 2; fn fa() { return a; }
      \*              fn fb() { return b; } print fa(); print fb(); return 0; }
      \* outer();
      Program("upvalue",
              <<FnS("outer", << >>,
                    <<LetS("a", Num(1)), LetS("b", Num(2)),
                      FnS("fa", << >>, <<ReturnS(Var("a"))>>),
                      FnS("fb", << >>, <<ReturnS(Var("b"))>>),
                      PrintS(CallE(Var("fa"), << >>)), PrintS(CallE(Var("fb"), << >>)),
                      ReturnS(Num(0))>>),
                ExprS(CallE(Var("outer"), << >>))>>,
              <<"1", "2">>),
      \* fn outer() { let a = 1; fn get() { return a; }
      \*              fn inc() { a = a + 1; return a; } print inc(); print get();
      \*              return 0; }
      \* outer();
      Program("upvalue",
              <<FnS("outer", << >>,
                    <<LetS("a", Num(1)),
                      FnS("get", << >>, <<ReturnS(Var("a"))>>),
                      FnS("inc", << >>,
                          <<ExprS(Assign("a", Binary(Var("a"), "+", Num(1)))),
                            ReturnS(Var("a"))>>),
                      PrintS(CallE(Var("inc"), << >>)), PrintS(CallE(Var("get"), << >>)),
                      ReturnS(Num(0))>>),
                ExprS(CallE(Var("outer"), << >>))>>,
              <<"2", "2">>),
      \* fn outer() { let a = 1; let b = 2; fn fb() { return b; }
      \*              fn fa() { return a; } return fa; }
      \* print outer()();
      Program("upvalue",
              <<FnS("outer", << >>,
                    <<LetS("a", Num(1)), LetS("b", Num(2)),
                      FnS("fb", << >>, <<ReturnS(Var("b"))>>),
                      FnS("fa", << >>, <<ReturnS(Var("a"))>>),
                      ReturnS(Var("fa"))>>),
                PrintS(CallE(CallE(Var("outer"), << >>), << >>))>>,
              <<"1">>),
      \* let keep = nil; { let a = 1; fn f() { return a; } keep = f; }
      \* print keep();
      Program("upvalue",
              <<LetS("keep", Lit("Nil")),
                BlockS(<<LetS("a", Num(1)),
                         FnS("f", << >>, <<ReturnS(Var("a"))>>),
                         ExprS(Assign("keep", Var("f")))>>),
                PrintS(CallE(Var("keep"), << >>))>>,
              <<"1">>),
      \* fn g() { { let a = 1; fn f() { return a; } } return 0; }
      \* print g();
      Program("upvalue",
              <<FnS("g", << >>,
                    <<BlockS(<<LetS("a", Num(1)),
                               FnS("f", << >>, <<ReturnS(Var("a"))>>)>>),
                      ReturnS(Num(0))>>),
                PrintS(CallE(Var("g"), << >>))>>,
              <<"0">>),
      \* class C { init() { this.v = 7; }
      \*           m() { fn f() { return this.v; } return f; } }
      \* let h = C().m(); print h();
      Program("upvalue",
              <<ClassS("C", "",
                       <<MethodD("init", << >>, <<ExprS(SetP(This, "v", Num(7)))>>),
                         MethodD("m", << >>,
                                 <<FnS("f", << >>, <<ReturnS(GetP(This, "v"))>>),
                                   ReturnS(Var("f"))>>)>>),
                LetS("h", InvokeE(CallE(Var("C"), << >>), "m", << >>)),
                PrintS(CallE(Var("h"), << >>))>>,
              <<"7">>)>>

\* class D {}
ClassD == ClassS("D", "", << >>)

\* the invoke programs: calls of a property of an instance
InvokeSources ==
    <<\* fn g() { return "field"; }
      \* class C { init() { this.f = g; } f() { return "method"; }
      \*           m(a) { return a; } }
      \* let c = C(); print c.f(); print c.m(5);
      Program("invoke",
              <<FnS("g", << >>, <<ReturnS(Str("field"))>>),
                ClassS("C", "",
                       <<MethodD("init", << >>, <<ExprS(SetP(This, "f", Var("g")))>>),
                         MethodD("f", << >>, <<ReturnS(Str("method"))>>),
                         MethodD("m", <<"a">>, <<ReturnS(Var("a"))>>)>>),
                LetS("c", CallE(Var("C"), << >>)),
                PrintS(InvokeE(Var("c"), "f", << >>)),
                PrintS(InvokeE(Var("c"), "m", <<Num(5)>>))>>,
              <<"field", "5">>),
      \* class D {} let d = D(); d.n = number; d.k = D; d.n("5"); d.k();
      Program("invoke",
              <<ClassD, LetS("d", CallE(Var("D"), << >>)),
                ExprS(SetP(Var("d"), "n", Var("number"))),
                ExprS(SetP(Var("d"), "k", Var("D"))),
                ExprS(InvokeE(Var("d"), "n", <<Str("5")>>)),
                ExprS(InvokeE(Var("d"), "k", << >>))>>,
              << >>),
      \* class D {} D().zz();
      Program("invoke",
              <<ClassD, ExprS(InvokeE(CallE(Var("D"), << >>), "zz", << >>))>>,
              << >>),
      \* class C { m(a) { return a; } } C().m();
      Program("invoke",
              <<ClassS("C", "", <<MethodD("m", <<"a">>, <<ReturnS(Var("a"))>>)>>),
                ExprS(InvokeE(CallE(Var("C"), << >>), "m", << >>))>>,
              << >>),
      \* class D {} let d = D(); d.v = 1; d.v();
      Program("invoke",
              <<ClassD, LetS("d", CallE(Var("D"), << >>)),
                ExprS(SetP(Var("d"), "v", Num(1))),
                ExprS(InvokeE(Var("d"), "v", << >>))>>,
              << >>)>>

\* imports by a module that has open upvalues
ImportUpvalueSources ==
    <<\* { let a = 1; fn f() { return a; } import "a.horst"; print f(); }
      \* a.horst: print "a";
      Run("import_upvalue", 2,
          Files3(<<BlockS(<<LetS("a", Num(1)),
                            FnS("f", << >>, <<ReturnS(Var("a"))>>),
                            ImportS("a.horst", << >>),
                            PrintS(CallE(Var("f"), << >>))>>)>>,
                 <<PrintS(Str("a"))>>, << >>),
          <<"a", "1">>),
      \* fn outer() { let a = 1; fn f() { return a; } import "a.horst"; return f; }
      \* print outer()();
      \* a.horst: { let x = 7; let y = 8; print x; }
      Run("import_upvalue", 2,
          Files3(<<FnS("outer", << >>,
                       <<LetS("a", Num(1)),
                         FnS("f", << >>, <<ReturnS(Var("a"))>>),
                         ImportS("a.horst", << >>),
                         ReturnS(Var("f"))>>),
                   PrintS(CallE(CallE(Var("outer"), << >>), << >>))>>,
                 <<BlockS(<<LetS("x", Num(7)), LetS("y", Num(8)), PrintS(Var("x"))>>)>>,
                 << >>),
          <<"7", "1">>)>>

\* class Array { init(n) { this.n = n; } set(i, v) { this.last = v; }
\*               get(i) { return this.last; } }
ClassArray ==
    ClassS("Array", "",
           <<MethodD("init", <<"n">>, <<ExprS(SetP(This, "n", Var("n")))>>),
             MethodD("set", <<"i", "v">>, <<ExprS(SetP(This, "last", Var("v")))>>),
             MethodD("get", <<"i">>, <<ReturnS(GetP(This, "last"))>>)>>)

\* class It { init() { this.i = 0; } hasNext() { return this.i < 2; }
\*            next() { this.i = this.i + 1; return this.i; } }
ClassIt ==
    ClassS("It", "",
           <<MethodD("init", << >>, <<ExprS(SetP(This, "i", Num(0)))>>),
             MethodD("hasNext", << >>, <<ReturnS(Binary(GetP(This, "i"), "<", Num(2)))>>),
             MethodD("next", << >>,
                     <<ExprS(SetP(This, "i", Binary(GetP(This, "i"), "+", Num(1)))),
                       ReturnS(GetP(This, "i"))>>)>>)

\* class Seq { iterator() { return It(); } }
ClassSeq ==
    ClassS("Seq", "", <<MethodD("iterator", << >>, <<ReturnS(CallE(Var("It"), << >>))>>)>>)

\* the scope programs: declarations, then one block whose statements declare
\* locals, among them the hidden locals of array literals and for-in loops
ScopeSources ==
    <<\* { let a = 1; { let b = 2; print a + b; } let c = 3; print c; }
      Program("scope",
              <<BlockS(<<LetS("a", Num(1)),
                         BlockS(<<LetS("b", Num(2)),
                                  PrintS(Binary(Var("a"), "+", Var("b")))>>),
                         LetS("c", Num(3)), PrintS(Var("c"))>>)>>,
              <<"3", "3">>),
      \* class Array ...  { let xs = [1, 2]; print xs.get(1); }
      Program("scope",
              <<ClassArray,
                BlockS(<<LetS("xs", ArrayE(<<Num(1), Num(2)>>)),
                         PrintS(InvokeE(Var("xs"), "get", <<Num(1)>>))>>)>>,
              <<"2">>),
      \* class Array ...  { [7]; let a = 5; print a; }
      Program("scope",
              <<ClassArray,
                BlockS(<<ExprS(ArrayE(<<Num(7)>>)), LetS("a", Num(5)),
                         PrintS(Var("a"))>>)>>,
              <<"5">>),
      \* class It ... class Seq ...  { for (let x in Seq()) { print x; } print "end"; }
      Program("scope",
              <<ClassIt, ClassSeq,
                BlockS(<<ForInS("x", CallE(Var("Seq"), << >>),
                                BlockS(<<PrintS(Var("x"))>>)),
                         PrintS(Str("end"))>>)>>,
              <<"1", "2", "end">>),
      \* { let n = 0; for (let i = 0; i < 2; i = i + 1) { let d = i + i; n = n + d; }
      \*   print n; }
      Program("scope",
              <<BlockS(<<LetS("n", Num(0)),
                         ForS(LetS("i", Num(0)), Binary(Var("i"), "<", Num(2)),
                              Assign("i", Binary(Var("i"), "+", Num(1))),
                              BlockS(<<LetS("d", Binary(Var("i"), "+", Var("i"))),
                                       ExprS(Assign("n", Binary(Var("n"), "+", Var("d"))))>>)),
                         PrintS(Var("n"))>>)>>,
              <<"2">>)>>

\* a program that reads the hidden local of an array literal while a
\* temporary value is on the stack
LocalSources ==
    <<\* class Array ...  { print 1 + [7].get(0); }
      Program("local",
              <<ClassArray,
                BlockS(<<PrintS(Binary(Num(1), "+",
                                       InvokeE(ArrayE(<<Num(7)>>), "get", <<Num(0)>>)))>>)>>,
              <<"8">>),
      \* fn f(a, b) { let c = a + b; { let d = c + a; c = d; } return c; }  print f(1, 2);
      Program("local",
              <<FnS("f", <<"a", "b">>,
                    <<LetS("c", Binary(Var("a"), "+", Var("b"))),
                      BlockS(<<LetS("d", Binary(Var("c"), "+", Var("a"))),
                               ExprS(Assign("c", Var("d")))>>),
                      ReturnS(Var("c"))>>),
                PrintS(CallE(Var("f"), <<Num(1), Num(2)>>))>>,
              <<"4">>)>>

\* the resolve programs: names that are locals, locals of enclosing functions
\* one and two functions out, and globals, some of them shadowed
ResolveSources ==
    <<\* fn outer() { let a = 1; let b = 2;
      \*   fn middle() { fn inner() { a = a + b; return a + b; } return inner; }
      \*   return middle; }
      \* print outer()()();
      Program("table",
              <<FnS("outer", << >>,
                    <<LetS("a", Num(1)), LetS("b", Num(2)),
                      FnS("middle", << >>,
                          <<FnS("inner", << >>,
                                <<ExprS(Assign("a", Binary(Var("a"), "+", Var("b")))),
                                  ReturnS(Binary(Var("a"), "+", Var("b")))>>),
                            ReturnS(Var("inner"))>>),
                      ReturnS(Var("middle"))>>),
                PrintS(CallE(CallE(CallE(Var("outer"), << >>), << >>), << >>))>>,
              <<"5">>),
      \* let x = "g"; let z = "z";
      \* fn outer() { let x = "o";
      \*   fn inner() { let y = x; { let x = "i"; { let x = "j"; print x; } print x; }
      \*                print x; print z; return y; }
      \*   return inner(); }
      \* print x; print outer();
      Program("resolve",
              <<LetS("x", Str("g")), LetS("z", Str("z")),
                FnS("outer", << >>,
                    <<LetS("x", Str("o")),
                      FnS("inner", << >>,
                          <<LetS("y", Var("x")),
                            BlockS(<<LetS("x", Str("i")),
                                     BlockS(<<LetS("x", Str("j")), PrintS(Var("x"))>>),
                                     PrintS(Var("x"))>>),
                            PrintS(Var("x")), PrintS(Var("z")), ReturnS(Var("y"))>>),
                      ReturnS(CallE(Var("inner"), << >>))>>),
                PrintS(Var("x")), PrintS(CallE(Var("outer"), << >>))>>,
              <<"g", "j", "i", "o", "z", "o">>),
      \* let a = "g"; print a; { let a = a; }
      \* (the local a shadows the global in its own initializer)
      Program("resolve",
              <<LetS("a", Str("g")), PrintS(Var("a")), BlockS(<<LetS("a", Var("a"))>>)>>,
              << >>)>>

\* i = i + 1;
Increment(name) == Assign(name, Binary(Var(name), "+", Num(1)))

\* the jump programs: one block of if, while, do-while and for statements
JumpSources ==
    <<\* { let i = 0; do { print i; i = i + 1; } while (i < 0);
      \*   do { print i; i = i + 1; } while (i < 3); print "d"; }
      Program("jump",
              <<BlockS(<<LetS("i", Num(0)),
                         DoS(BlockS(<<PrintS(Var("i")), ExprS(Increment("i"))>>),
                             Binary(Var("i"), "<", Num(0))),
                         DoS(BlockS(<<PrintS(Var("i")), ExprS(Increment("i"))>>),
                             Binary(Var("i"), "<", Num(3))),
                         PrintS(Str("d"))>>)>>,
              <<"0", "1", "2", "d">>),
      \* { for (let i = 0; i < 2; i = i + 1) print i;
      \*   for (let j = 5; j < 5; j = j + 1) print j;  print "f"; }
      Program("jump",
              <<BlockS(<<ForS(LetS("i", Num(0)), Binary(Var("i"), "<", Num(2)),
                              Increment("i"), PrintS(Var("i"))),
                         ForS(LetS("j", Num(5)), Binary(Var("j"), "<", Num(5)),
                              Increment("j"), PrintS(Var("j"))),
                         PrintS(Str("f"))>>)>>,
              <<"0", "1", "f">>),
      \* { let i = 0; for (; i < 1;) i = i + 1;  print i;
      \*   if (i == 1) print "t"; else print "e";
      \*   if (i == 2) print "t2";
      \*   if (i == 2) print "t3"; else print "e3";
      \*   while (i < 3) i = i + 1;  print i; }
      Program("jump",
              <<BlockS(<<LetS("i", Num(0)),
                         ForS(NoExpr, Binary(Var("i"), "<", Num(1)), NoExpr,
                              ExprS(Increment("i"))),
                         PrintS(Var("i")),
                         IfS(Binary(Var("i"), "==", Num(1)), PrintS(Str("t")),
                             PrintS(Str("e"))),
                         IfS(Binary(Var("i"), "==", Num(2)), PrintS(Str("t2")), NoExpr),
                         IfS(Binary(Var("i"), "==", Num(2)), PrintS(Str("t3")),
                             PrintS(Str("e3"))),
                         WhileS(Binary(Var("i"), "<", Num(3)), ExprS(Increment("i"))),
                         PrintS(Var("i"))>>)>>,
              <<"1", "t", "e3", "3">>)>>

\* the module programs: a function of a.horst called from the script, both
\* modules with globals of the same names
ModuleSources ==
    <<\* let x = "mx"; import "a.horst" for f, g; print f(); print x; print g();
      \* x = "mx2"; let x = "mx3"; print x; print f();
      \* a.horst: let x = "ax"; fn f() { print x; x = "ax2"; return x; }
      \*          fn g() { return x; }
      Run("module", 2,
          Files3(<<LetS("x", Str("mx")),
                   ImportS("a.horst", <<ImportV("f", ""), ImportV("g", "")>>),
                   PrintS(CallE(Var("f"), << >>)), PrintS(Var("x")),
                   PrintS(CallE(Var("g"), << >>)),
                   ExprS(Assign("x", Str("mx2"))), LetS("x", Str("mx3")),
                   PrintS(Var("x")), PrintS(CallE(Var("f"), << >>))>>,
                 <<LetS("x", Str("ax")),
                   FnS("f", << >>,
                       <<PrintS(Var("x")), ExprS(Assign("x", Str("ax2"))),
                         ReturnS(Var("x"))>>),
                   FnS("g", << >>, <<ReturnS(Var("x"))>>)>>,
                 << >>),
          <<"ax", "ax2", "mx", "ax2", "mx3", "ax2", "ax2">>),
      \* let y = 1; import "a.horst" for f; print f();
      \* a.horst: fn f() { y = 2; return 3; }      (y is not a global of a.horst)
      Run("module", 2,
          Files3(<<LetS("y", Num(1)), ImportS("a.horst", <<ImportV("f", "")>>),
                   PrintS(CallE(Var("f"), << >>))>>,
                 <<FnS("f", << >>, <<ExprS(Assign("y", Num(2))), ReturnS(Num(3))>>)>>,
                 << >>),
          << >>)>>

Sources ==
    CounterSources \o SuperSources \o ToStringSources \o <<ToStringInFunction>>
        \o PrintSources \o AddSources \o CallSources \o InitSources
        \o PropertySources \o InheritSources \o OtherSources
        \o ImportSources \o CycleSources \o DriverSources \o FaultSources
        \o LoopSources \o LogicSources \o UpvalueSources
        \o InvokeSources \o ImportUpvalueSources \o ScopeSources
        \o LocalSources \o ResolveSources \o JumpSources \o ModuleSources

-----------------------------------------------------------------------------
(* The state machine *)

\* the fields of the VM
VM ==
    [stack |-> stack, frames |-> frames, open_upvalues |-> open_upvalues,
     objects |-> objects, last_module |-> last_module, runs |-> runs,
     output |-> output, status |-> status, message |-> message]

\* args[1] of main, canonicalized: the base of the VM
Base == Path(TRUE, <<"dir", "haupt.horst">>)

\* the readable files and their contents
Files == Sources[source].files

NoInstruction == Instr("none", 0, 0)

Init ==
    /\ status = "start"
    /\ source \in 1..Len(Sources)
    /\ program = [ok |-> FALSE]
    /\ stack = << >>
    /\ frames = << >>
    /\ open_upvalues = << >>
    /\ objects = << >>
    /\ modules = EmptyMap
    /\ last_module = << >>
    /\ reads = << >>
    /\ runs = << >>
    /\ output = << >>
    /\ message = ""
    /\ last = [instruction |-> NoInstruction, S |-> [status |-> "start"]]
    /\ parser = [phase |-> "idle"]
    /\ scanner = [phase |-> "idle"]
    /\ resolver = [phase |-> "idle"]
    /\ chunk = [phase |-> "idle"]
    /\ gc = [phase |-> "idle"]

Commit(S, instruction) ==
    /\ stack' = S.stack
    /\ frames' = S.frames
    /\ open_upvalues' = S.open_upvalues
    /\ objects' = S.objects
    /\ last_module' = S.last_module
    /\ runs' = S.runs
    /\ output' = S.output
    /\ status' = S.status
    /\ message' = S.message
    /\ last' = [instruction |-> instruction, S |-> VM]
    /\ UNCHANGED <<parser, scanner, resolver, chunk, gc>>

\* main with args.len() != 2
main_usage ==
    /\ status = "start"
    /\ Sources[source].args # 2
    /\ status' = "exit64"
    /\ UNCHANGED <<source, program, stack, frames, open_upvalues, objects, modules,
                   last_module, reads, runs, output, message, last, parser, scanner,
                   resolver, chunk, gc>>

\* main when std::fs::read_to_string(file) is not Ok
main_unreadable ==
    /\ status = "start"
    /\ Sources[source].args = 2
    /\ Base \notin DOMAIN Files
    /\ status' = "exit66"
    /\ UNCHANGED <<source, program, stack, frames, open_upvalues, objects, modules,
                   last_module, reads, runs, output, message, last, parser, scanner,
                   resolver, chunk, gc>>

\* main from read_to_string to VM::compile(None, source): the file is read, the
\* module is allocated and registered, the source compiled; main exits with 65
\* on Err
VM_compile ==
    /\ status = "start"
    /\ Sources[source].args = 2
    /\ Base \in DOMAIN Files
    /\ reads' = Append(reads, Base)
    /\ LET module == AllocRef(VM)
       IN  /\ program' = compile(Files[Base], module)
           /\ modules' = Insert(modules, << >>, module)
           /\ Commit([alloc(VM, Module_new(<< >>))
                         EXCEPT !.status = IF program'.ok THEN "compiled" ELSE "exit65"],
                     NoInstruction)
    /\ UNCHANGED source

NativeNames == {"readln", "number", "int", "random", "floor", "panic"}

init_globals(S) ==
    [S EXCEPT !.objects[modules[<< >>] + 1].variables =
                  [x \in DOMAIN @ \cup NativeNames |->
                      IF x \in NativeNames THEN Value_NativeFunction(x) ELSE @[x]]]

\* VM::interpret up to its call of VM::run
interpret(S, fun) ==
    LET closure == Value_Closure(fun, << >>)
    IN  call_value(push(init_globals(S), closure), closure, 0)

\* vm.interpret(program) of main, up to the call of VM::run
VM_interpret ==
    /\ status = "compiled"
    /\ Commit(interpret([VM EXCEPT !.status = "running"], program.function),
              NoInstruction)
    /\ UNCHANGED <<source, program, modules, reads>>

\* get_current_instruction
Fetch == At(frame(VM).function.code, frame(VM).ip)

\* the loop of VM::run is at an instruction with one of these opcodes
At_(ops) == status = "running" /\ frames # << >> /\ Fetch.op \in ops

\* self.frame_mut().ip += 1
Advanced == [VM EXCEPT !.frames[Len(frames)].ip = @ + 1]

Step(S) == Commit(S, Fetch) /\ UNCHANGED <<source, program, modules, reads>>

Instruction_Constant ==
    At_({"Constant"}) /\ Step(push(Advanced, read_constant(Advanced, Fetch.a)))

Instruction_Nil == At_({"Nil"}) /\ Step(push(Advanced, Value_Nil))

Instruction_True == At_({"True"}) /\ Step(push(Advanced, Value_Boolean(TRUE)))

Instruction_False == At_({"False"}) /\ Step(push(Advanced, Value_Boolean(FALSE)))

Instruction_Pop == At_({"Pop"}) /\ Step(pop(Advanced))

Instruction_GetGlobal == At_({"GetGlobal"}) /\ Step(get_global(Advanced, Fetch.a))

Instruction_DefineGlobal == At_({"DefineGlobal"}) /\ Step(define_global(Advanced, Fetch.a))

Instruction_SetGlobal == At_({"SetGlobal"}) /\ Step(set_global(Advanced, Fetch.a))

Instruction_GetLocal == At_({"GetLocal"}) /\ Step(get_local(Advanced, Fetch.a))

Instruction_SetLocal == At_({"SetLocal"}) /\ Step(set_local(Advanced, Fetch.a))

Instruction_GetUpvalue == At_({"GetUpvalue"}) /\ Step(get_upvalue(Advanced, Fetch.a))

Instruction_SetUpvalue == At_({"SetUpvalue"}) /\ Step(set_upvalue(Advanced, Fetch.a))

Instruction_GetProperty == At_({"GetProperty"}) /\ Step(get_property(Advanced, Fetch.a))

Instruction_SetProperty == At_({"SetProperty"}) /\ Step(set_property(Advanced, Fetch.a))

Instruction_GetSuper == At_({"GetSuper"}) /\ Step(get_super(Advanced, Fetch.a))

Instruction_Equal ==
    /\ At_({"Equal"})
    /\ Step(Need(Advanced, 2,
                 push(pop(pop(Advanced)),
                      Value_Boolean(peek(Advanced, 1) = peek(Advanced, 0)))))

Instruction_binary_op ==
    /\ At_({"Greater", "Less", "Subtract", "Multiply"})
    /\ Step(binary_op(Advanced, Fetch.op))

Instruction_Add == At_({"Add"}) /\ Step(add(Advanced))

Instruction_Not ==
    /\ At_({"Not"})
    /\ Step(Need(Advanced, 1,
                 push(pop(Advanced), Value_Boolean(is_falsey(peek(Advanced, 0))))))

Instruction_Negate ==
    /\ At_({"Negate"})
    /\ Step(Need(Advanced, 1,
                 IF peek(Advanced, 0).t = "Number"
                 THEN push(pop(Advanced), Value_Number(-peek(Advanced, 0).n))
                 ELSE Error(pop(Advanced), "Operand must be a number.")))

Instruction_Print == At_({"Print"}) /\ Step(print(Advanced))

Instruction_Jump == At_({"Jump"}) /\ Step(jump(Advanced, Fetch.a))

Instruction_JumpIfFalse == At_({"JumpIfFalse"}) /\ Step(jump_if_false(Advanced, Fetch.a))

Instruction_Loop == At_({"Loop"}) /\ Step(loop(Advanced, Fetch.a))

\* the file an import of `name` by the running module names
import_file(S, name) ==
    LET module_name == Deref(S, frame(S).function.module).name
    IN  with_file_name(IF module_name = << >> THEN Base ELSE Head(module_name), name)

\* the arm Instruction::ImportModule and VM::import_module, up to the call of
\* VM::run by interpret: the file is read and compiled (VM::compile takes the
\* module of the key from self.modules or allocates it), the frames and the
\* stack of the importer are set aside and the code of the module is called
Instruction_ImportModule ==
    /\ At_({"ImportModule"})
    /\ LET file == import_file(Advanced, read_string(Advanced, Fetch.a))
           relative == path_relative_from(file, parent(Base))
           name == <<Head(relative)>>
           module == IF name \in DOMAIN modules THEN modules[name] ELSE AllocRef(VM)
           S1 == IF name \in DOMAIN modules THEN Advanced
                 ELSE alloc(Advanced, Module_new(name))
           importer == [frames |-> Advanced.frames, stack |-> Advanced.stack,
                        name |-> Head(relative), module |-> module]
           \* compiled: the result of self.compile(Some(name), &source)
           run_module(compiled) ==
               IF ~compiled.ok
               THEN Error(S1, "Could not compile module")
               ELSE interpret([S1 EXCEPT !.frames = << >>,
                                         !.stack = << >>,
                                         !.runs = Append(@, importer)],
                              compiled.function)
       IN  IF relative = << >>
           THEN Step(Panic(Advanced, "unwrap on None"))
           ELSE IF file \notin DOMAIN Files
           THEN Step(Error(Advanced, "Could not read file"))
           ELSE /\ Commit(run_module(compile(Files[file], module)), Fetch)
                /\ modules' = Insert(modules, name, module)
                /\ reads' = Append(reads, file)
                /\ UNCHANGED <<source, program>>

Instruction_ImportVariable ==
    At_({"ImportVariable"}) /\ Step(import_variable(Advanced, Fetch.a))

Instruction_Call == At_({"Call"}) /\ Step(call_value_from_stack(Advanced, Fetch.a))

Instruction_Invoke ==
    At_({"Invoke"}) /\ Step(invoke(Advanced, read_string(Advanced, Fetch.a), Fetch.b))

Instruction_SuperInvoke ==
    At_({"SuperInvoke"}) /\ Step(super_invoke(Advanced, Fetch.a, Fetch.b))

Instruction_Closure == At_({"Closure"}) /\ Step(make_closure(Advanced, Fetch.a))

Instruction_CloseUpvalue == At_({"CloseUpvalue"}) /\ Step(close_upvalue(Advanced))

Instruction_Return == At_({"Return"}) /\ Step(return(Advanced))

Instruction_Class ==
    /\ At_({"Class"})
    /\ Step(push(alloc(Advanced, Class_new(read_string(Advanced, Fetch.a))),
                 Value_Class(AllocRef(Advanced))))

Instruction_Inherit == At_({"Inherit"}) /\ Step(inherit(Advanced))

Instruction_Method == At_({"Method"}) /\ Step(define_method(Advanced, Fetch.a))

Next ==
    \/ main_usage
    \/ main_unreadable
    \/ VM_compile
    \/ VM_interpret
    \/ Instruction_Constant
    \/ Instruction_Nil
    \/ Instruction_True
    \/ Instruction_False
    \/ Instruction_Pop
    \/ Instruction_GetGlobal
    \/ Instruction_DefineGlobal
    \/ Instruction_SetGlobal
    \/ Instruction_GetLocal
    \/ Instruction_SetLocal
    \/ Instruction_GetUpvalue
    \/ Instruction_SetUpvalue
    \/ Instruction_GetProperty
    \/ Instruction_SetProperty
    \/ Instruction_GetSuper
    \/ Instruction_Equal
    \/ Instruction_binary_op
    \/ Instruction_Add
    \/ Instruction_Not
    \/ Instruction_Negate
    \/ Instruction_Print
    \/ Instruction_Jump
    \/ Instruction_JumpIfFalse
    \/ Instruction_Loop
    \/ Instruction_ImportModule
    \/ Instruction_ImportVariable
    \/ Instruction_Call
    \/ Instruction_Invoke
    \/ Instruction_SuperInvoke
    \/ Instruction_Closure
    \/ Instruction_CloseUpvalue
    \/ Instruction_Return
    \/ Instruction_Class
    \/ Instruction_Inherit
    \/ Instruction_Method

Spec == Init /\ [][Next]_vars

-----------------------------------------------------------------------------
(* Parser::compile on a token stream, one declaration at a time. *)

Identifier(name) == Token("Identifier", name)

Number(lexeme) == Token("Number", lexeme)

Punctuation(kind) == Token(kind, "")

\* the longest token stream drawn from TokenAlphabet
MaxTokens == 4

TokenAlphabet ==
    {Identifier("a"), Number("1"), Punctuation("Plus"), Punctuation("Equal"),
     Punctuation("Semicolon"), Punctuation("Dot"), Punctuation("Print"),
     Punctuation("Let"), Punctuation("In"), Token("Error", "Unexpected character.")}

ShortInputs == UNION {[1..n -> TokenAlphabet] : n \in 1..MaxTokens}

\* what stands before an assignment target: nothing, or the start of a
\* statement or of an operand
TargetPrefixes ==
    {<< >>,
     <<Punctuation("Print")>>,
     <<Punctuation("Let"), Identifier("c"), Punctuation("Equal")>>,
     <<Punctuation("LeftParen")>>,
     <<Identifier("b"), Punctuation("Equal")>>,
     <<Punctuation("Minus")>>,
     <<Punctuation("Bang")>>,
     <<Number("1"), Punctuation("Plus")>>,
     <<Number("1"), Punctuation("Star")>>,
     <<Identifier("b"), Punctuation("EqualEqual")>>,
     <<Identifier("b"), Punctuation("Less")>>,
     <<Identifier("b"), Punctuation("And")>>,
     <<Identifier("b"), Punctuation("Or")>>,
     <<Punctuation("Print"), Punctuation("Minus")>>}

\* the prefixes after which the target is parsed above assignment precedence
HigherPrefixes ==
    {prefix \in TargetPrefixes :
        prefix # << >> /\ Last(prefix).kind \notin {"Print", "Equal", "LeftParen"}}

Targets ==
    {<<Identifier("a")>>,
     <<Identifier("a"), Punctuation("Dot"), Identifier("p")>>,
     <<Identifier("a"), Punctuation("LeftBracket"), Number("0"),
       Punctuation("RightBracket")>>,
     <<Identifier("a"), Punctuation("Dot"), Identifier("p"), Punctuation("LeftBracket"),
       Number("0"), Punctuation("RightBracket")>>,
     <<Identifier("a"), Punctuation("LeftBracket"), Number("0"),
       Punctuation("RightBracket"), Punctuation("Dot"), Identifier("p")>>,
     <<Identifier("a"), Punctuation("LeftParen"), Punctuation("RightParen")>>,
     <<Identifier("a"), Punctuation("Dot"), Identifier("p"), Punctuation("LeftParen"),
       Number("1"), Punctuation("Comma"), Number("2"), Punctuation("RightParen")>>,
     <<Number("1")>>,
     <<Punctuation("True")>>}

\* `prefix target = 2 ;`, closing the parenthesis a prefix opened
Assignment(prefix, target) ==
    prefix \o target \o <<Punctuation("Equal"), Number("2")>>
    \o (IF prefix # << >> /\ Last(prefix).kind = "LeftParen"
        THEN <<Punctuation("RightParen")>> ELSE << >>)
    \o <<Punctuation("Semicolon")>>

AssignmentInputs ==
    {Assignment(prefix, target) : prefix \in TargetPrefixes, target \in Targets}

ParserInit ==
    /\ parser \in {[phase |-> "start", input |-> tokens, P |-> Parser_on(tokens, 0),
                    result |-> << >>] : tokens \in ShortInputs \cup AssignmentInputs}
    /\ scanner = [phase |-> "idle"]
    /\ resolver = [phase |-> "idle"]
    /\ chunk = [phase |-> "idle"]
    /\ gc = [phase |-> "idle"]
    /\ status = "start"
    /\ source = 1
    /\ program = [ok |-> FALSE]
    /\ stack = << >>
    /\ frames = << >>
    /\ open_upvalues = << >>
    /\ objects = << >>
    /\ modules = EmptyMap
    /\ last_module = << >>
    /\ reads = << >>
    /\ runs = << >>
    /\ output = << >>
    /\ message = ""
    /\ last = [instruction |-> NoInstruction, S |-> [status |-> "start"]]

\* compile: the first advance
Parser_compile_advance ==
    /\ parser.phase = "start"
    /\ parser' = [parser EXCEPT !.phase = "compiling", !.P = Parser_advance(@)]
    /\ UNCHANGED <<vm_vars, scanner, resolver, chunk, gc>>

\* compile: one turn of the loop `while !self.matches(TokenType::Eof)`;
\* a panic of get_rule unwinds compile
Parser_compile_declaration ==
    /\ parser.phase = "compiling"
    /\ ~Parser_check(parser.P, "Eof")
    /\ LET declared(P1) ==
               [parser EXCEPT !.P = P1,
                              !.phase = IF P1.panicked THEN "panic" ELSE "compiling"]
       IN  parser' = declared(Parser_declaration(parser.P))
    /\ UNCHANGED <<vm_vars, scanner, resolver, chunk, gc>>

\* compile: matches(Eof) returned true; emit_return and the Result
Parser_compile_returns ==
    /\ parser.phase = "compiling"
    /\ Parser_check(parser.P, "Eof")
    /\ LET returned(P1) ==
               [parser EXCEPT
                   !.P = P1,
                   !.phase = "done",
                   !.result = <<IF P1.had_error THEN [ok |-> FALSE]
                                ELSE [ok |-> TRUE, function |-> Cur(P1).function]>>]
       IN  parser' = returned(emit_return(Parser_advance(parser.P)))
    /\ UNCHANGED <<vm_vars, scanner, resolver, chunk, gc>>

ParserNext ==
    \/ Parser_compile_advance
    \/ Parser_compile_declaration
    \/ Parser_compile_returns

ParserSpec == ParserInit /\ [][ParserNext]_vars

-----------------------------------------------------------------------------
(* Scanner::scan_tokens on a source text, one scan_token at a time. *)

\* the longest source text
MaxSource == 5

\* letters, a digit, the underscore and a blank: the texts of words
WordTexts == UNION {[1..n -> {"o", "r", "_", "1", " "}] : n \in 0..MaxSource}

\* a letter, punctuation, the slash, the newline and the string delimiter:
\* the texts with comments
CommentTexts == UNION {[1..n -> {"o", ";", "/", "\n", "\""}] : n \in 0..MaxSource}

\* a delimiter and after it delimiters, backslashes and letters: the texts
\* of string literals
StringTexts ==
    {<<delimiter>> \o body :
        delimiter \in {"\"", "'"},
        body \in UNION {[1..n -> {"\"", "'", "\\", "n", "t", "r", "o"}] :
                           n \in 0..(MaxSource - 1)}}

ScannerInit ==
    /\ scanner \in {[phase |-> "scanning", S |-> Scanner_new(text)] :
                       text \in WordTexts \cup CommentTexts \cup StringTexts}
    /\ parser = [phase |-> "idle"]
    /\ resolver = [phase |-> "idle"]
    /\ chunk = [phase |-> "idle"]
    /\ gc = [phase |-> "idle"]
    /\ status = "start"
    /\ source = 1
    /\ program = [ok |-> FALSE]
    /\ stack = << >>
    /\ frames = << >>
    /\ open_upvalues = << >>
    /\ objects = << >>
    /\ modules = EmptyMap
    /\ last_module = << >>
    /\ reads = << >>
    /\ runs = << >>
    /\ output = << >>
    /\ message = ""
    /\ last = [instruction |-> NoInstruction, S |-> [status |-> "start"]]

\* scan_tokens: one turn of the loop `while !self.is_at_end()`; a panic of
\* scan_token unwinds scan_tokens
Scanner_scan_tokens_loop ==
    /\ scanner.phase = "scanning"
    /\ ~Scanner_is_at_end(scanner.S)
    /\ LET scanned(S1) ==
               [phase |-> IF S1.failed # "" THEN "failed" ELSE "scanning", S |-> S1]
       IN  scanner' = scanned(Scanner_scan_token([scanner.S EXCEPT !.start = scanner.S.current]))
    /\ UNCHANGED <<vm_vars, parser, resolver, chunk, gc>>

\* scan_tokens: the loop is left and Eof is pushed
Scanner_scan_tokens_returns ==
    /\ scanner.phase = "scanning"
    /\ Scanner_is_at_end(scanner.S)
    /\ scanner' = [phase |-> "done", S |-> Scanner_add_token(scanner.S, Token_of("Eof"))]
    /\ UNCHANGED <<vm_vars, parser, resolver, chunk, gc>>

ScannerNext ==
    \/ Scanner_scan_tokens_loop
    \/ Scanner_scan_tokens_returns

ScannerSpec == ScannerInit /\ [][ScannerNext]_vars

\* scan_tokens is a loop of one thread: it goes on while it can
ScannerFairSpec == ScannerSpec /\ WF_vars(ScannerNext)

-----------------------------------------------------------------------------
(* Properties.  `last` holds the instruction executed last and the VM as it *)
(* was before it; the VM after it is the current state.                     *)

Pre == last.S

Executed(ops) == last.instruction.op \in ops

IsPrefix(s, t) == Len(s) <= Len(t) /\ SubSeq(t, 1, Len(s)) = s

Family == Sources[source].family

Expect == Sources[source].expect

\* the name operand of the instruction executed last
LastName == At(Last(Pre.frames).function.constants, last.instruction.a).s

\* the frames before the instruction executed last, its ip incremented
PreFramesAdvanced == [Pre.frames EXCEPT ![Len(Pre.frames)].ip = @ + 1]

\* the Return executed last has ended the nested run of a Print
PrintReturned ==
    /\ Executed({"Return"})
    /\ status = "running"
    /\ Len(runs) < Len(Pre.runs)
    /\ "before" \in DOMAIN Last(Pre.runs)

\* fun is the `init` method of a class of the heap
IsInitializer(S, fun) ==
    \E i \in 1..Len(S.objects) :
        /\ S.objects[i].kind = "Class"
        /\ "init" \in DOMAIN S.objects[i].methods
        /\ S.objects[i].methods["init"].function = fun

\* C1: in the closure programs the k-th call of one closure returned by
\* make() returns k: the lines printed are the expected 1, 2, 3, ... (and the
\* value of the other captured local), and the run ends without a fault
C1_CounterReturnsK ==
    Family = "counter" =>
        /\ status \notin {"error", "panic"}
        /\ IsPrefix(output, Expect)
        /\ (status = "done" => output = Expect)

\* C2: `B().greet()` with body `super.greet(); print "B";` in `class B < A`
\* prints A then B and raises no runtime error
C2_SuperInvokesA ==
    Family = "super" =>
        /\ status \notin {"error", "panic"}
        /\ IsPrefix(output, Expect)
        /\ (status = "done" => output = Expect)

\* C3: Print of an instance whose class defines toString calls toString on a
\* fresh frame stack with the instance as receiver and no arguments; when that
\* call returns, the value it returned is printed, the frame stack is the one
\* before the Print and the stack is the stack before the Print without the
\* printed instance
C3_PrintToString ==
    /\ (Executed({"Print"}) /\ status = "running" /\ Len(runs) > Len(Pre.runs)) =>
          LET value == Last(Pre.stack)
              toString == At(Pre.objects, At(Pre.objects, value.ref).class).methods["toString"]
          IN  /\ value.t = "Instance"
              /\ stack = Pre.stack
              /\ frames = <<CallFrame(toString.function, 0, Len(stack) - 1,
                                      toString.upvalues)>>
              /\ runs = Append(Pre.runs, [frames |-> PreFramesAdvanced,
                                          l |-> Len(Pre.stack) - 1,
                                          before |-> Pre.stack])
              /\ output = Pre.output
    /\ PrintReturned =>
          /\ frames = Last(Pre.runs).frames
          /\ stack = Front(Last(Pre.runs).before)
          /\ output = Append(Pre.output, Display(Last(Pre.stack)))
          /\ runs = Front(Pre.runs)

\* a toString called by Print inside a function has returned
C3_Witness ==
    /\ Executed({"Return"})
    /\ status = "running"
    /\ Len(runs) < Len(Pre.runs)
    /\ Len(frames) = 2
    /\ Len(stack) >= 3
    /\ Len(Pre.stack) > Len(stack) + 2

\* C4: every executed Print pops exactly one value and writes exactly one
\* line, whatever the kind of the value (for an instance with toString the
\* line is written when toString returns)
C4_PrintWritesOneLine ==
    /\ (Executed({"Print"}) /\ status = "running" /\ Len(runs) = Len(Pre.runs)) =>
          /\ stack = Front(Pre.stack)
          /\ Len(output) = Len(Pre.output) + 1
    /\ PrintReturned =>
          /\ Len(stack) = Len(Last(Pre.runs).before) - 1
          /\ Len(output) = Len(Pre.output) + 1

\* C5: Add on (a, b) pushes the sum when both are numbers, otherwise the
\* concatenation of the two as text when either is a string, and is a runtime
\* error only when neither holds
C5_AddEitherString ==
    (Executed({"Add"}) /\ Len(Pre.stack) >= 2) =>
        LET b == Last(Pre.stack)
            a == Last(Front(Pre.stack))
            rest == Front(Front(Pre.stack))
        IN  IF a.t = "Number" /\ b.t = "Number"
            THEN status = "running" /\ stack = Append(rest, Value_Number(a.n + b.n))
            ELSE IF a.t = "String" \/ b.t = "String"
                 THEN /\ status = "running"
                      /\ stack = Append(rest, Value_String(Display(a) \o Display(b)))
                 ELSE status = "error"

C7_InitReturnsInstance ==
    /\ (Executed({"Call"}) /\ status = "running" /\ Len(Pre.stack) > last.instruction.a) =>
          LET callee == At(Pre.stack, Len(Pre.stack) - 1 - last.instruction.a)
          IN  (callee.t = "Class" /\ "init" \in DOMAIN At(Pre.objects, callee.ref).methods) =>
                 /\ objects = Append(Pre.objects, Instance_new(callee.ref))
                 /\ Len(frames) = Len(Pre.frames) + 1
                 /\ Last(frames).function =
                        At(Pre.objects, callee.ref).methods["init"].function
                 /\ At(stack, Last(frames).base) = Value_Instance(Len(Pre.objects))
    /\ (/\ Executed({"Return"})
        /\ status = "running"
        /\ Len(Pre.frames) > 1
        /\ IsInitializer(Pre, Last(Pre.frames).function)) =>
             LET this == At(Pre.stack, Last(Pre.frames).base)
             IN  /\ this.t = "Instance"
                 /\ stack = Append(SubSeq(Pre.stack, 1, Last(Pre.frames).base), this)
    /\ Family = "init" => status # "exit65"
    /\ (Family = "init" /\ status = "done") => output = Expect
    /\ Family = "init_returns_value" => status \in {"start", "exit65"}

\* a bare `return;` in the middle of an initializer has returned the instance
C7_Witness ==
    /\ Executed({"Return"})
    /\ status = "running"
    /\ Len(Pre.frames) > 1
    /\ IsInitializer(Pre, Last(Pre.frames).function)
    /\ Last(Pre.frames).ip + 1 < Len(Last(Pre.frames).function.code)
    /\ Last(stack).t = "Instance"

\* C8: GetProperty name on an instance pushes the field `name` if there is
\* one, even when the class has a method `name`; otherwise the BoundMethod of
\* the class's method `name` with the instance as receiver; otherwise it is
\* the error 'Undefined property'; on another value it is an error; without
\* an error the result replaces the receiver
C8_GetProperty ==
    (Executed({"GetProperty"}) /\ Pre.stack # << >>) =>
        LET receiver == Last(Pre.stack)
            fields == At(Pre.objects, receiver.ref).fields
            methods == At(Pre.objects, At(Pre.objects, receiver.ref).class).methods
        IN  IF receiver.t # "Instance"
            THEN status = "error"
            ELSE IF LastName \in DOMAIN fields
                 THEN /\ status = "running"
                      /\ stack = Append(Front(Pre.stack), fields[LastName])
                 ELSE IF LastName \in DOMAIN methods
                      THEN /\ status = "running"
                           /\ stack = Append(Front(Pre.stack),
                                             Value_BoundMethod(receiver.ref,
                                                               methods[LastName].function,
                                                               methods[LastName].upvalues))
                      ELSE status = "error" /\ message = "Undefined property"

\* a field was read whose name is also a method of the class
C8_Witness ==
    /\ Executed({"GetProperty"})
    /\ status = "running"
    /\ Pre.stack # << >>
    /\ Last(Pre.stack).t = "Instance"
    /\ LastName \in DOMAIN At(Pre.objects, Last(Pre.stack).ref).fields
    /\ LastName \in DOMAIN At(Pre.objects,
                              At(Pre.objects, Last(Pre.stack).ref).class).methods
    /\ Last(stack) = Value_Number(7)

\* C9: SetProperty name with [instance, value] on the stack sets field `name`
\* of that instance and nothing else of the heap (no method table, no other
\* field, no other instance), and replaces the two operands by the value; on
\* another target it is a runtime error
C9_SetProperty ==
    (Executed({"SetProperty"}) /\ Len(Pre.stack) >= 2) =>
        LET value == Last(Pre.stack)
            target == Last(Front(Pre.stack))
        IN  IF target.t # "Instance"
            THEN status = "error"
            ELSE /\ status = "running"
                 /\ stack = Append(Front(Front(Pre.stack)), value)
                 /\ Len(objects) = Len(Pre.objects)
                 /\ \A i \in 1..Len(objects) :
                       i # target.ref + 1 => objects[i] = Pre.objects[i]
                 /\ At(objects, target.ref).kind = "Instance"
                 /\ At(objects, target.ref).class = At(Pre.objects, target.ref).class
                 /\ DOMAIN At(objects, target.ref).fields =
                        DOMAIN At(Pre.objects, target.ref).fields \cup {LastName}
                 /\ \A f \in DOMAIN At(objects, target.ref).fields :
                       At(objects, target.ref).fields[f] =
                           IF f = LastName THEN value
                           ELSE At(Pre.objects, target.ref).fields[f]

\* a field was set on an instance that has another field, while another
\* instance of the class has a field of the same name
C9_Witness ==
    /\ Executed({"SetProperty"})
    /\ status = "running"
    /\ Len(Pre.stack) >= 2
    /\ Last(Front(Pre.stack)).t = "Instance"
    /\ DOMAIN At(Pre.objects, Last(Front(Pre.stack)).ref).fields \ {LastName} # {}
    /\ \E i \in 1..Len(Pre.objects) :
          /\ i # Last(Front(Pre.stack)).ref + 1
          /\ Pre.objects[i].kind = "Instance"
          /\ LastName \in DOMAIN Pre.objects[i].fields

\* C10: Inherit gives the subclass every method of the superclass and leaves
\* the superclass as it was; a Method of the subclass's body adds or replaces
\* that one method of the subclass only; so the subclass has the superclass's
\* methods except those its body defines again; a superclass that is no class
\* is a runtime error
C10_Inherit ==
    /\ (Executed({"Inherit"}) /\ Len(Pre.stack) >= 2) =>
          LET subclass == Last(Pre.stack)
              superclass == Last(Front(Pre.stack))
          IN  IF subclass.t = "Class" /\ superclass.t = "Class"
              THEN /\ status = "running"
                   /\ Len(objects) = Len(Pre.objects)
                   /\ \A i \in 1..Len(objects) :
                         i # subclass.ref + 1 => objects[i] = Pre.objects[i]
                   /\ DOMAIN At(objects, subclass.ref).methods =
                          DOMAIN At(Pre.objects, subclass.ref).methods
                              \cup DOMAIN At(Pre.objects, superclass.ref).methods
                   /\ \A m \in DOMAIN At(Pre.objects, superclass.ref).methods :
                         At(objects, subclass.ref).methods[m] =
                             At(Pre.objects, superclass.ref).methods[m]
              ELSE status = "error"
    /\ (Executed({"Method"}) /\ status = "running" /\ Len(Pre.stack) >= 2) =>
          LET closure == Last(Pre.stack)
              class == Last(Front(Pre.stack))
          IN  /\ class.t = "Class"
              /\ Len(objects) = Len(Pre.objects)
              /\ \A i \in 1..Len(objects) :
                    i # class.ref + 1 => objects[i] = Pre.objects[i]
              /\ At(objects, class.ref).methods =
                     Insert(At(Pre.objects, class.ref).methods, LastName, closure)
    /\ (Family = "inherit" /\ status = "done") => output = Expect
    /\ Family = "inherit" => status \notin {"error", "panic", "exit65"}
    /\ Family = "inherit_non_class" => status \in {"start", "compiled", "running", "error"}
    /\ Family = "inherit_non_class" => output = << >>

\* a Method of the subclass's body has replaced a method that was inherited
C10_Witness ==
    /\ Executed({"Method"})
    /\ status = "running"
    /\ Len(Pre.stack) >= 2
    /\ Last(Front(Pre.stack)).t = "Class"
    /\ LastName \in DOMAIN At(Pre.objects, Last(Front(Pre.stack)).ref).methods
    /\ At(objects, Last(Front(Pre.stack)).ref).methods[LastName] = Last(Pre.stack)
    /\ At(Pre.objects, Last(Front(Pre.stack)).ref).methods[LastName] # Last(Pre.stack)
    /\ \E i \in 1..Len(objects) :
          /\ i # Last(Front(Pre.stack)).ref + 1
          /\ objects[i].kind = "Class"
          /\ LastName \in DOMAIN objects[i].methods
          /\ objects[i].methods[LastName] =
                 At(Pre.objects, Last(Front(Pre.stack)).ref).methods[LastName]

\* the files read for imports, in order: each is compiled and its code run
ImportsLoaded == IF reads = << >> THEN << >> ELSE Tail(reads)

\* C11: within one run no module is compiled and executed twice: the later
\* imports of a key reuse the cached module, so no file is loaded for an
\* import more than once, whoever the importers are, and the run ends well
C11_ImportOnce ==
    /\ \A i, j \in 1..Len(ImportsLoaded) :
          i # j => ImportsLoaded[i] # ImportsLoaded[j]
    /\ Family = "import" =>
          /\ status \notin {"error", "panic"}
          /\ IsPrefix(output, Expect)

\* C12: an import of a module that is being loaded is reported as an error by
\* the VM and ends the run: the load is not entered again (nothing of the
\* module runs a second time) and the run does not end in another way
C12_CycleIsError ==
    Family = "cycle" =>
        /\ status \notin {"panic", "done"}
        /\ IsPrefix(output, Expect)
        /\ (status = "error" => output = Expect)

C14_FaultIsError ==
    /\ status \in {"error", "panic"} => last.instruction # NoInstruction
    /\ Family = "fault" =>
          /\ status \notin {"panic", "done"}
          /\ IsPrefix(output, Expect)
          /\ (status = "error" => output = Expect)

\* C15: closures created in different iterations of a loop, each capturing a
\* variable of the loop body, have distinct cells: each reads the value of its
\* own iteration and the write of one is not seen by the others
C15_LoopClosures ==
    Family = "loop" =>
        /\ status \notin {"error", "panic"}
        /\ IsPrefix(output, Expect)
        /\ (status = "done" => output = Expect)

-----------------------------------------------------------------------------
(* Properties of Parser::compile on token streams (ParserSpec). *)

Reports(P) == {i \in DOMAIN P.log : P.log[i].event = "report"}

Sets(P) == {i \in DOMAIN P.log : P.log[i].event = "set"}

\* the inputs `prefix target = 2 ;` whose target is parsed above Assignment
HigherAssignments ==
    {Assignment(prefix, target) : prefix \in HigherPrefixes, target \in Targets}

\* C17: an `=` is compiled as an assignment only by a variable, dot or index
\* rule that was invoked with can_assign true; when the target is the operand
\* of a unary or binary operator, the `=` after it is reported as 'Invalid
\* assignment target.' and no setter or set-call is emitted.
C17_AssignmentOnlyWithCanAssign ==
    /\ parser.phase \in {"compiling", "done"} =>
          \A i \in Sets(parser.P) :
              /\ parser.P.log[i].rule \in {"variable", "dot", "index"}
              /\ parser.P.log[i].can_assign
    /\ parser.phase = "done" /\ parser.input \in HigherAssignments =>
          /\ \E i \in Reports(parser.P) :
                 parser.P.log[i].message = "Invalid assignment target."
          /\ Sets(parser.P) = {}
          /\ \A i \in DOMAIN Cur(parser.P).function.code :
                 Cur(parser.P).function.code[i].op
                     \notin {"SetGlobal", "SetLocal", "SetUpvalue", "SetProperty"}
          /\ parser.result = <<[ok |-> FALSE]>>

\* the keywords at which synchronize stops
StatementStart == {"Class", "Fn", "Let", "For", "If", "While", "Print", "Return"}

\* what the claim C18 says of error_at, synchronize and declaration, leaving
\* aside whether compile returns
PanicModeRecovers(P) ==
    LET IsDiagnostic(e) == e.event \in {"report", "synchronize"}
        diagnostics == SelectSeq(P.log, IsDiagnostic)
    IN  \* between two synchronizations at most one error is reported; an
        \* error raised while panic_mode is set reports nothing
        /\ \A i \in DOMAIN diagnostics :
               i > 1 /\ diagnostics[i].event = "report" =>
                   diagnostics[i - 1].event = "synchronize"
        \* panic_mode is set from a report to the next synchronize
        /\ P.panic_mode <=>
               diagnostics # << >> /\ Last(diagnostics).event = "report"
        \* synchronize stops after `;`, before a keyword that starts a
        \* statement, or at Eof
        /\ \A i \in DOMAIN P.log :
               P.log[i].event = "synchronized" =>
                   \/ P.log[i].previous = "Semicolon"
                   \/ P.log[i].current \in StatementStart
                   \/ P.log[i].previous = "Eof"
        \* had_error is set by the first report and never cleared
        /\ P.had_error <=> Reports(P) # {}

\* C18: in panic mode at most one error is reported between two
\* synchronizations, synchronize clears panic_mode and skips to a `;`, a
\* statement-start keyword or Eof, had_error stays set, and compilation goes
\* on to the end of the token stream and then returns failure.
C18_PanicMode ==
    /\ parser.phase \in {"compiling", "done", "panic"} => PanicModeRecovers(parser.P)
    /\ parser.phase # "panic"
    /\ parser.phase = "done" =>
           /\ parser.P.scanner = << >>
           /\ parser.P.previous.kind = "Eof"
           /\ parser.P.had_error => parser.result = <<[ok |-> FALSE]>>

-----------------------------------------------------------------------------
(* Properties of Scanner::scan_tokens (ScannerSpec, ScannerFairSpec). *)

\* ASCII letters, digits and the underscore
IsWordCharacter(c) == c \in Letters \cup Digits \cup {"_"}

RECURSIVE Words(_, _)
\* the maximal runs of word characters of the text cs, in order; run is the
\* run being read
Words(cs, run) ==
    IF cs = << >>
    THEN IF run = << >> THEN << >> ELSE <<run>>
    ELSE IF IsWordCharacter(Head(cs))
         THEN Words(Tail(cs), Append(run, Head(cs)))
         ELSE (IF run = << >> THEN << >> ELSE <<run>>) \o Words(Tail(cs), << >>)

\* the one token of a run that starts with a letter or an underscore
WordToken(run) ==
    IF Concat(run) \in Keywords
    THEN Token_of(KeywordToken(Concat(run)))
    ELSE Token_Identifier(Concat(run))

\* C19: every maximal run of letters, digits and underscores that starts
\* with a letter or an underscore becomes exactly one token, the keyword if
\* the whole run is one and else an Identifier carrying the whole run.
C19_IdentifierIsMaximalRun ==
    LET text == scanner.S.source
        words == Words(text, << >>)
    IN  /\ scanner.phase = "done"
        /\ text \in WordTexts
        /\ \A i \in DOMAIN words : Head(words[i]) \in Letters \cup {"_"}
        => scanner.S.tokens = [i \in DOMAIN words |-> WordToken(words[i])]
                              \o <<Token_of("Eof")>>

RECURSIVE StripComments(_, _)
\* the text cs without its comments: the characters from `//` up to the next
\* newline or the end are left out
StripComments(cs, in_comment) ==
    IF cs = << >>
    THEN << >>
    ELSE IF in_comment
         THEN IF Head(cs) = "\n"
              THEN <<"\n">> \o StripComments(Tail(cs), FALSE)
              ELSE StripComments(Tail(cs), TRUE)
         ELSE IF Len(cs) >= 2 /\ cs[1] = "/" /\ cs[2] = "/"
              THEN StripComments(Tail(Tail(cs)), TRUE)
              ELSE <<Head(cs)>> \o StripComments(Tail(cs), FALSE)

RECURSIVE scan_tokens(_)
\* scan_tokens from the scanner S to its return or its panic
scan_tokens(S) ==
    IF S.failed # "" THEN S
    ELSE IF Scanner_is_at_end(S) THEN Scanner_add_token(S, Token_of("Eof"))
    ELSE scan_tokens(Scanner_scan_token([S EXCEPT !.start = S.current]))

HasComment(text) == \E i \in 1..(Len(text) - 1) : text[i] = "/" /\ text[i + 1] = "/"

HasString(text) == \E i \in DOMAIN text : text[i] \in {"\"", "'"}

ScanReturns ==
    scanner.phase = "done" =>
        LET tokens == scanner.S.tokens
            text == scanner.S.source
        IN  \* exactly one Eof, at the end
            /\ tokens # << >>
            /\ \A i \in DOMAIN tokens : tokens[i] = Token_of("Eof") <=> i = Len(tokens)
            \* the tokens are those of the text without its comments
            /\ ~HasString(text) =>
                   tokens = scan_tokens(Scanner_new(StripComments(text, FALSE))).tokens

RECURSIVE Literal(_, _)
\* the string literal whose text after the opening delimiter is cs: whether
\* it is closed, its content, and how many characters up to and including
\* the closing delimiter it takes
Literal(cs, delimiter) ==
    IF cs = << >>
    THEN [closed |-> FALSE, content |-> "", length |-> 0]
    ELSE IF Head(cs) = delimiter
    THEN [closed |-> TRUE, content |-> "", length |-> 1]
    ELSE IF Head(cs) = "\\"
    THEN IF Len(cs) = 1
         THEN [closed |-> FALSE, content |-> "", length |-> 1]
         ELSE LET rest == Literal(Tail(Tail(cs)), delimiter)
                  c == cs[2]
              IN  [closed |-> rest.closed,
                   content |-> (IF c = "n" THEN "\n"
                                ELSE IF c = "t" THEN "\t"
                                ELSE IF c = "r" THEN "\r" ELSE c) \o rest.content,
                   length |-> rest.length + 2]
    ELSE LET rest == Literal(Tail(cs), delimiter)
         IN  [closed |-> rest.closed, content |-> Head(cs) \o rest.content,
              length |-> rest.length + 1]

\* the first scan_token of a text that begins with a string delimiter has
\* returned or panicked
FirstStringScanned ==
    /\ scanner.phase \in {"scanning", "failed"}
    /\ scanner.S.source \in StringTexts
    /\ scanner.S.start = 0
    /\ scanner.S.current > 0

\* C21: a string literal becomes one String token holding the text between
\* the delimiters with the escapes decoded (\n, \t, \r; a backslash before
\* any other character gives that character and does not end the literal);
\* the literal ends at the first unescaped delimiter, and the end of the
\* input before it is the failure 'Unterminated string.'.
C21_StringLiteral ==
    FirstStringScanned =>
        LET text == scanner.S.source
            literal == Literal(Tail(text), Head(text))
        IN  IF literal.closed
            THEN /\ scanner.phase = "scanning"
                 /\ scanner.S.tokens = <<Token_String(literal.content)>>
                 /\ scanner.S.current = 1 + literal.length
            ELSE /\ scanner.phase = "failed"
                 /\ scanner.S.failed = "Unterminated string."
                 /\ scanner.S.tokens = << >>

\* a literal with an escaped delimiter in it
C21_Witness ==
    /\ FirstStringScanned
    /\ scanner.phase = "scanning"
    /\ scanner.S.source = <<"\"", "\\", "\"", "n", "\"">>
    /\ scanner.S.tokens = <<Token_String("\"n")>>

\* ---------------------------------------------------------------------------
\* src/src/module.rs: the key of an imported module.  A text is the sequence
\* of its characters; a path is its components (Path above), a component the
\* sequence of its characters.

RECURSIVE Path_segments(_, _, _)
\* the runs of text between separators, from character i on
Path_segments(text, i, segment) ==
    IF i > Len(text) THEN <<segment>>
    ELSE IF text[i] = "/" THEN <<segment>> \o Path_segments(text, i + 1, << >>)
    ELSE Path_segments(text, i + 1, Append(segment, text[i]))

\* Path::new(text).components(): repeated separators and `.` are skipped,
\* except a `.` that starts a relative path; `..` is kept
Path_components(text) ==
    LET absolute == text # << >> /\ text[1] = "/"
        segments == Path_segments(text, 1, << >>)
        comps[i \in 0..Len(segments)] ==
            IF i = 0 THEN << >>
            ELSE IF segments[i] = << >> THEN comps[i - 1]
            ELSE IF segments[i] = <<".">> /\ (i > 1 \/ absolute) THEN comps[i - 1]
            ELSE Append(comps[i - 1], segments[i])
    IN  Path(absolute, comps[Len(segments)])

\* Path::join of a relative path: its text is appended after a separator, so
\* a `.` that started it is no longer at the start unless base is empty
Path_join(base, path) ==
    IF path.absolute THEN path
    ELSE Path(base.absolute,
              base.comps
                  \o (IF (base.absolute \/ base.comps # << >>)
                         /\ path.comps # << >> /\ Head(path.comps) = <<".">>
                      THEN Tail(path.comps) ELSE path.comps))

RECURSIVE join_components(_)
\* [..].join("/")
join_components(parts) ==
    IF parts = << >> THEN << >>
    ELSE IF Len(parts) = 1 THEN parts[1]
    ELSE parts[1] \o <<"/">> \o join_components(Tail(parts))

is_relative_import(module) == module # << >> /\ module[1] = "."

RECURSIVE cancel_parents(_, _)
\* the components with every `.` dropped and every `..` taking the component
\* before it away
cancel_parents(comps, kept) ==
    IF comps = << >> THEN kept
    ELSE IF Head(comps) = <<".">> THEN cancel_parents(Tail(comps), kept)
    ELSE IF Head(comps) = <<".", ".">> /\ kept # << >> /\ Last(kept) # <<".", ".">>
         THEN cancel_parents(Tail(comps), Front(kept))
    ELSE cancel_parents(Tail(comps), Append(kept, Head(comps)))

\* the root is the empty text, CurDir `.`, ParentDir `..`, a normal component
\* its own text: no component is removed
normalize_path(path) ==
    join_components((IF path.absolute THEN << << >> >> ELSE << >>) \o path.comps)

\* resolve_module: the key, or the panic of parent().unwrap() on an importer
\* with no component
resolve_module(importer, module) ==
    IF ~is_relative_import(module) THEN [ok |-> TRUE, key |-> module]
    ELSE IF Path_components(importer).comps = << >>
         THEN [ok |-> FALSE, key |-> << >>]
    ELSE [ok |-> TRUE,
          key |-> normalize_path(Path_join(parent(Path_components(importer)),
                                           Path_components(module)))]

\* the importers and the module specifiers resolved
Importers ==
    { <<"m">>, <<"d", "/", "m">>, <<"/", "m">>, <<".", "/", "m">>,
      <<"d", "/", "e", "/", "m">>, <<"/">>, << >> }

ModuleSpecs ==
    { <<"b">>, <<"a", "/", "b">>, <<"/", "b">>, <<"a", "/", ".", ".", "/", "b">>,
      <<".", "/", "b">>, <<".", "/", "a", "/", ".", ".", "/", "b">>,
      <<".", "/", ".", "/", "b">>, <<".", "/", "a", "/", "b">>,
      <<".", ".", "/", "b">>, <<".", ".", "/", "d", "/", "b">>,
      <<".", "/", "/", "b">>, <<".", "b">> }

ResolverInit ==
    /\ resolver \in {[phase |-> "start", importer |-> importer, module |-> module,
                      other |-> other] :
                        importer \in Importers, module \in ModuleSpecs,
                        other \in ModuleSpecs}
    /\ chunk = [phase |-> "idle"]
    /\ gc = [phase |-> "idle"]
    /\ parser = [phase |-> "idle"]
    /\ scanner = [phase |-> "idle"]
    /\ status = "start"
    /\ source = 1
    /\ program = [ok |-> FALSE]
    /\ stack = << >>
    /\ frames = << >>
    /\ open_upvalues = << >>
    /\ objects = << >>
    /\ modules = EmptyMap
    /\ last_module = << >>
    /\ reads = << >>
    /\ runs = << >>
    /\ output = << >>
    /\ message = ""
    /\ last = [instruction |-> NoInstruction, S |-> [status |-> "start"]]

\* the two imports of one importer are resolved
Resolver_resolve_module ==
    /\ resolver.phase = "start"
    /\ resolver' = [resolver EXCEPT
                       !.phase = "done",
                       !.module = [spec |-> @,
                                   result |-> resolve_module(resolver.importer, @)],
                       !.other = [spec |-> @,
                                  result |-> resolve_module(resolver.importer, @)]]
    /\ UNCHANGED <<vm_vars, parser, scanner, chunk, gc>>

ResolverNext == Resolver_resolve_module

ResolverSpec == ResolverInit /\ [][ResolverNext]_vars

\* the file a relative specifier names: the directory of the importer, then
\* the specifier, `.` dropped and `..` having removed the component before it
NamedFile(importer, module) ==
    cancel_parents(parent(Path_components(importer)).comps
                       \o Path_components(module).comps, << >>)

\* no `.` is left in the key, and no `..` after a component it could remove
IsNormalized(key) ==
    LET comps == Path_segments(key, 1, << >>)
    IN  \A i \in 1..Len(comps) :
            /\ comps[i] # <<".">>
            /\ comps[i] = <<".", ".">> => \A j \in 1..(i - 1) : comps[j] = <<".", ".">>

\* C22: a specifier that does not start with `.` is returned unchanged; the
\* key of a relative specifier has no `.` component and no `..` that has a
\* component before it to remove; two relative specifiers that name the same
\* file from one importer have the same key.
C22_ResolveModule ==
    resolver.phase = "done" =>
        /\ ~is_relative_import(resolver.module.spec)
              => resolver.module.result = [ok |-> TRUE, key |-> resolver.module.spec]
        /\ is_relative_import(resolver.module.spec) /\ resolver.module.result.ok
              => IsNormalized(resolver.module.result.key)
        /\ ( /\ is_relative_import(resolver.module.spec)
             /\ is_relative_import(resolver.other.spec)
             /\ resolver.module.result.ok
             /\ NamedFile(resolver.importer, resolver.module.spec)
                    = NamedFile(resolver.importer, resolver.other.spec) )
              => resolver.module.result = resolver.other.result

-----------------------------------------------------------------------------
(* Upvalues.  The properties speak of the frame that executes the        *)
(* instruction, frame(Pre), and of the heap and the stack after it.      *)

\* the upvalues of closure c that capture a local of the frame creating it
LocalCaptures(c) ==
    {i \in 1..Len(c.function.upvalues) : c.function.upvalues[i].is_local}

\* the stack slot captured by upvalue i of a closure created in frame fr
CapturedSlot(fr, c, i) == fr.base + c.function.upvalues[i].index

\* the closures in the slots of frame fr that the code of fr creates
ClosuresOf(fr) ==
    {stack[k] : k \in {n \in (fr.base + 1)..Len(stack) :
        /\ stack[n].t = "Closure"
        /\ \E m \in 1..Len(fr.function.constants) :
              /\ fr.function.constants[m].t = "Function"
              /\ fr.function.constants[m].function = stack[n].function}}

\* C23: the closure made by Closure holds, for every local it captures, a
\* registry of open_upvalues that is Open on exactly the slot of that local;
\* it shares a registry with another closure made in the same frame exactly
\* where both capture the same local.
C23_CaptureUpvalue ==
    Executed({"Closure"}) /\ status = "running" =>
        LET fr == frame(Pre)
            made == Last(stack)
        IN  /\ \A i \in LocalCaptures(made) :
                  /\ At(objects, At(made.upvalues, i - 1))
                         = UpvalueRegistry_Open(CapturedSlot(fr, made, i))
                  /\ \E n \in 1..Len(open_upvalues) :
                         open_upvalues[n] = At(made.upvalues, i - 1)
            /\ \A c \in ClosuresOf(fr) :
                  \A i \in LocalCaptures(made), j \in LocalCaptures(c) :
                      (At(made.upvalues, i - 1) = At(c.upvalues, j - 1))
                          <=> (CapturedSlot(fr, made, i) = CapturedSlot(fr, c, j))

\* C24: every registry of open_upvalues is Open, the slots of the list
\* decrease strictly from its first entry to its last, so no two entries are
\* open on one slot.
C24_OpenUpvalues ==
    /\ \A i \in 1..Len(open_upvalues) : At(objects, open_upvalues[i]).kind = "Open"
    /\ \A i, j \in 1..Len(open_upvalues) :
           i < j => At(objects, open_upvalues[i]).index > At(objects, open_upvalues[j]).index

\* a closure has captured a local that another closure of the frame had
\* captured before, and the list holds the one registry
C24_Witness ==
    /\ Executed({"Closure"})
    /\ status = "running"
    /\ Pre.open_upvalues # << >>
    /\ open_upvalues = Pre.open_upvalues
    /\ LocalCaptures(Last(stack)) # {}
    /\ At(objects, open_upvalues[1])
           = UpvalueRegistry_Open(CapturedSlot(frame(Pre), Last(stack), 1))

\* the threshold close_upvalues is called with by the instruction executed
\* last, and the stack it reads: CloseUpvalue passes the top slot, Return the
\* base of its frame after popping the result
CloseThreshold ==
    IF Executed({"Return"}) THEN frame(Pre).base ELSE Len(Pre.stack) - 1

CloseStack == IF Executed({"Return"}) THEN Front(Pre.stack) ELSE Pre.stack

\* C25: close_upvalues(T) takes out of open_upvalues exactly the registries
\* open on a slot above T and leaves each of them Closed with the value of
\* its slot; the registries open on a slot up to T stay open and listed.
C25_CloseUpvalues ==
    Executed({"Return", "CloseUpvalue"}) /\ Pre.stack # << >> =>
        \A n \in 1..Len(Pre.open_upvalues) :
            LET ref == Pre.open_upvalues[n]
                slot == Deref(Pre, ref).index
                listed == \E m \in 1..Len(open_upvalues) : open_upvalues[m] = ref
            IN  IF slot > CloseThreshold
                THEN /\ ~listed
                     /\ slot < Len(CloseStack)
                     /\ At(objects, ref) = UpvalueRegistry_Closed(At(CloseStack, slot))
                ELSE /\ listed
                     /\ At(objects, ref) = UpvalueRegistry_Open(slot)

\* no registry of the list is open on a slot the stack does not have
NoOpenBeyondStack ==
    \A m \in 1..Len(open_upvalues) :
        At(objects, open_upvalues[m]).kind = "Open"
            => At(objects, open_upvalues[m]).index < Len(stack)

\* C26: CloseUpvalue pops the top slot; a registry that was open on that slot
\* is Closed with the value of the slot and is no longer in open_upvalues;
\* afterwards no open registry refers to a slot at or above the stack length.
C26_CloseUpvalue ==
    Executed({"CloseUpvalue"}) /\ Pre.stack # << >> =>
        /\ stack = Front(Pre.stack)
        /\ \A n \in 1..Len(Pre.open_upvalues) :
               Deref(Pre, Pre.open_upvalues[n]) = UpvalueRegistry_Open(Len(Pre.stack) - 1)
                   => /\ At(objects, Pre.open_upvalues[n])
                             = UpvalueRegistry_Closed(Last(Pre.stack))
                      /\ \A m \in 1..Len(open_upvalues) :
                             open_upvalues[m] # Pre.open_upvalues[n]
        /\ NoOpenBeyondStack

\* C27: Return closes every registry that was open on a slot of the frame it
\* leaves, the slot of the callee or receiver at the base included, with the
\* value of that slot, and takes it out of open_upvalues; after a Return no
\* open registry refers to a slot at or above the stack length.
C27_ReturnClosesFrame ==
    Executed({"Return"}) /\ Pre.stack # << >> =>
        /\ \A n \in 1..Len(Pre.open_upvalues) :
               LET ref == Pre.open_upvalues[n]
                   slot == Deref(Pre, ref).index
               IN  slot >= frame(Pre).base
                       => /\ slot < Len(CloseStack)
                          /\ At(objects, ref) = UpvalueRegistry_Closed(At(CloseStack, slot))
                          /\ \A m \in 1..Len(open_upvalues) : open_upvalues[m] # ref
        /\ NoOpenBeyondStack

\* C28: a Return from a frame that is not the outermost of its run pops
\* exactly that frame and leaves the stack of the caller up to the base B of
\* the frame, then the result at index B; a Return from the outermost frame
\* ends the run: the program is done, or the Print that started the run
\* writes the value, or the import that started it goes on.
C28_ReturnFrame ==
    Executed({"Return"}) /\ Pre.stack # << >> =>
        IF Len(Pre.frames) > 1
        THEN /\ status = "running"
             /\ frames = Front(Pre.frames)
             /\ Len(stack) = frame(Pre).base + 1
             /\ At(stack, frame(Pre).base) = Last(Pre.stack)
             /\ \A i \in 1..frame(Pre).base : stack[i] = Pre.stack[i]
             /\ runs = Pre.runs
        ELSE IF Pre.runs = << >>
        THEN status = "done" /\ frames = << >>
        ELSE /\ runs = Front(Pre.runs)
             /\ "before" \in DOMAIN Last(Pre.runs)
                    => /\ status = "running"
                       /\ output = Append(Pre.output, Display(Last(Pre.stack)))
                       /\ frames = Last(Pre.runs).frames
                       /\ stack = SubSeq(Pre.stack, 1, Last(Pre.runs).l)

-----------------------------------------------------------------------------
(* Invoke against GetProperty followed by Call *)

\* GetProperty of the name at constant index on the receiver that lies below
\* arg_count arguments, the arguments pushed again, then Call(arg_count)
get_property_then_call(S, index, arg_count) ==
    LET l == Len(S.stack)
        arguments == SubSeq(S.stack, l - arg_count + 1, l)
        got == get_property([S EXCEPT !.stack = SubSeq(@, 1, l - arg_count)], index)
    IN  IF Running(got)
        THEN call_value_from_stack([got EXCEPT !.stack = @ \o arguments], arg_count)
        ELSE got

\* the VM before the instruction executed last, its ip incremented
PreAdvanced == [Pre EXCEPT !.frames = PreFramesAdvanced]

\* the instruction executed last is an Invoke whose receiver is an instance
InvokedOnInstance ==
    /\ Executed({"Invoke"})
    /\ Len(Pre.stack) > last.instruction.b
    /\ peek(Pre, last.instruction.b).t = "Instance"

\* two outcomes of the VM are the same: the same error or panic after the
\* same output, which ends the process, or the same running VM
SameOutcome(S, T) ==
    /\ S.status = T.status
    /\ S.message = T.message
    /\ S.output = T.output
    /\ Running(S) => S = T

\* C29: Invoke of property p with m arguments on an instance has the outcome
\* of GetProperty p followed by Call m: the same error, or the same stack,
\* frames and heap, a field named p taking precedence over a method.
C29_InvokeIsGetThenCall ==
    InvokedOnInstance =>
        SameOutcome(VM, get_property_then_call(PreAdvanced, last.instruction.a,
                                               last.instruction.b))

\* an Invoke has called the closure held by a field whose name is also the
\* name of a method of the class
C29_Witness ==
    /\ InvokedOnInstance
    /\ status = "running"
    /\ LastName \in DOMAIN Deref(Pre, peek(Pre, last.instruction.b).ref).fields
    /\ LastName \in DOMAIN Deref(Pre, Deref(Pre, peek(Pre, last.instruction.b).ref).class).methods
    /\ Len(frames) = Len(Pre.frames) + 1
    /\ frame(VM).function.name = "g"

-----------------------------------------------------------------------------
(* The stack effect of Inherit *)

\* the instruction executed last is an Inherit with a class on top of the
\* stack and a class below it
InheritedFromClass ==
    /\ Executed({"Inherit"})
    /\ Len(Pre.stack) >= 2
    /\ Last(Pre.stack).t = "Class"
    /\ Last(Front(Pre.stack)).t = "Class"

\* C30 as stated: after Inherit the subclass, which was the top of the
\* stack, is on top of the stack.
C30_SubclassLeft ==
    InheritedFromClass => stack # << >> /\ Last(stack) = Last(Pre.stack)

\* C30, amended: Inherit pops the subclass and leaves the superclass, which
\* was below it, on top of the stack; the frames are those of the running
\* function.
C30_SubclassPopped ==
    InheritedFromClass =>
        /\ status = "running"
        /\ stack = Front(Pre.stack)
        /\ Last(stack) = Last(Front(Pre.stack))
        /\ frames = PreFramesAdvanced

\* an Inherit has copied a method to a subclass that is not its superclass
C30_Witness ==
    /\ InheritedFromClass
    /\ Last(Pre.stack) # Last(Front(Pre.stack))
    /\ At(Pre.objects, Last(Front(Pre.stack)).ref).methods # EmptyMap
    /\ At(Pre.objects, Last(Pre.stack).ref).methods = EmptyMap
    /\ At(objects, Last(Pre.stack).ref).methods
           = At(Pre.objects, Last(Front(Pre.stack)).ref).methods
    /\ Len(stack) = Len(Pre.stack) - 1

-----------------------------------------------------------------------------
(* The run of an imported module *)

\* the Return executed last is the one of the top-level function of an
\* imported module: it ends the run started by ImportModule
ImportReturns ==
    /\ Executed({"Return"})
    /\ Pre.stack # << >>
    /\ Len(Pre.frames) = 1
    /\ Pre.runs # << >>
    /\ "module" \in DOMAIN Last(Pre.runs)

\* the registries held by the closures of the stack and by the frames that
\* ImportModule has set aside
ImporterRegistries ==
    LET importer == Last(Pre.runs)
    IN  UNION ({ {importer.stack[n].upvalues[i] :
                     i \in 1..Len(importer.stack[n].upvalues)} :
                   n \in {k \in 1..Len(importer.stack) :
                             importer.stack[k].t = "Closure"} }
               \cup { {importer.frames[n].upvalues[i] :
                          i \in 1..Len(importer.frames[n].upvalues)} :
                        n \in 1..Len(importer.frames) })

\* C31: when the run of an imported module ends, the importer goes on with
\* the frames and the stack it had at the ImportModule; its registries are
\* as they were before the module's last instruction, and those that were
\* open are still in open_upvalues; last_module is the module imported.
C31_ImportIsolated ==
    ImportReturns =>
        /\ status = "running"
        /\ frames = Last(Pre.runs).frames
        /\ stack = Last(Pre.runs).stack
        /\ runs = Front(Pre.runs)
        /\ last_module # << >>
        /\ Head(last_module).name = <<Last(Pre.runs).name>>
        /\ \A ref \in ImporterRegistries :
               /\ At(objects, ref) = Deref(Pre, ref)
               /\ (\E n \in 1..Len(Pre.open_upvalues) : Pre.open_upvalues[n] = ref)
                      => \E n \in 1..Len(open_upvalues) : open_upvalues[n] = ref

-----------------------------------------------------------------------------
(* Compiler locals and stack slots: compiler.rs 673-685, 848-875, 635-667 *)

\* the block that ends a scope program, and the declarations before it
ScopeBody == Last(Files[Base]).body

\* the parser at the boundary after k statements of that block
ScopeBoundary(k) ==
    block(begin_scope(block(Parser_new(0), Front(Files[Base]))), SubSeq(ScopeBody, 1, k))

\* the script frame is at the boundary after k statements of the block
AtScopeBoundary(k) ==
    /\ status = "running"
    /\ Len(frames) = 1
    /\ frame(VM).ip = start_loop(ScopeBoundary(k))

\* at the boundary after k statements: the program is accepted so far, a local
\* declared by statement k is initialized, and the frame holds one slot per local
ScopeBoundaryAligned(k) ==
    LET c == Cur(ScopeBoundary(k))
    IN  /\ ~ScopeBoundary(k).had_error
        /\ (k > 0 /\ ScopeBody[k].k = "let")
               => \E i \in 1..Len(c.locals) :
                      /\ c.locals[i].name = ScopeBody[k].name
                      /\ c.locals[i].depth = c.scope_depth
        /\ AtScopeBoundary(k) => Len(stack) - frame(VM).base = Len(c.locals)

\* end_scope emits one Pop or CloseUpvalue for each local of the block and
\* leaves the locals the function had before the block
ScopeClosed ==
    LET P == ScopeBoundary(Len(ScopeBody))
    IN  /\ Len(Cur(end_scope(P)).locals) = 1
        /\ start_loop(end_scope(P)) - start_loop(P) = Len(Cur(P).locals) - 1

\* C32: in a well-formed program the function being compiled has, at every
\* statement boundary, as many locals as the running frame holds stack slots;
\* end_scope emits one Pop or CloseUpvalue per local of the closed scope; a
\* declaration marks its own local as initialized; array literals and for-in
\* loops, with their hidden locals, included
C32_LocalsMatchStack ==
    (Family = "scope" /\ status # "start") =>
        /\ \A k \in 0..Len(ScopeBody) : ScopeBoundaryAligned(k)
        /\ ScopeClosed
        /\ status \notin {"exit65", "panic"}
        /\ status = "done" => output = Expect

-----------------------------------------------------------------------------
(* GetLocal and SetLocal: vm.rs 420-430, compiler.rs 755-776, 421-435 *)

\* the slot of the GetLocal or SetLocal that is next is a slot of the stack
LocalSlotInBounds ==
    At_({"GetLocal", "SetLocal"}) => frame(VM).base + Fetch.a < Len(stack)

\* C33: when a GetLocal(i) or SetLocal(i) emitted for a well-formed program is
\* executed, base + i is a slot of the stack, and the slot holds the value of
\* the variable the name in the source refers to: the program runs to its end
\* and prints what its variables hold
C33_LocalSlot ==
    /\ LocalSlotInBounds
    /\ Family = "local" =>
           /\ status \notin {"exit65", "error", "panic"}
           /\ status = "done" => output = Expect

-----------------------------------------------------------------------------
(* The upvalue table of a function: compiler.rs 138-147 *)

RECURSIVE FunctionsOf(_)
\* a compiled function and the functions among its constants, nested ones too
FunctionsOf(f) ==
    {f} \cup UNION {FunctionsOf(f.constants[n].function) :
                       n \in {m \in 1..Len(f.constants) : f.constants[m].t = "Function"}}

\* the positions of f's code that read or write an upvalue
UpvalueUses(f) ==
    {n \in 1..Len(f.code) : f.code[n].op \in {"GetUpvalue", "SetUpvalue"}}

UpvaluesDistinct(f) ==
    \A i, j \in 1..Len(f.upvalues) : f.upvalues[i] = f.upvalues[j] => i = j

\* add_upvalue for the pair of entry i gives entry i and leaves the table as it is
UpvalueFound(f, i) ==
    LET a == add_upvalue([function |-> f], f.upvalues[i].index, f.upvalues[i].is_local)
    IN  /\ a.index = i - 1
        /\ a.compiler.function.upvalues = f.upvalues

\* C34: the upvalue table of a function never holds two entries with the same
\* (index, is_local); every upvalue instruction names an entry of the table, so
\* repeated references to a variable use one index; add_upvalue for a pair the
\* table holds returns the existing index and does not grow the table
C34_UpvalueTable ==
    program.ok =>
        \A f \in FunctionsOf(program.function) :
            /\ UpvaluesDistinct(f)
            /\ \A n \in UpvalueUses(f) : f.code[n].a < Len(f.upvalues)
            /\ \A i \in 1..Len(f.upvalues) : UpvalueFound(f, i)

\* a function that refers twice to a variable two functions out is compiled
C34_Witness ==
    /\ program.ok
    /\ \E f \in FunctionsOf(program.function) :
           /\ Len(f.upvalues) = 2
           /\ \E i \in 1..Len(f.upvalues) : ~f.upvalues[i].is_local
           /\ \E m, n \in UpvalueUses(f) : m # n /\ f.code[m].a = f.code[n].a

-----------------------------------------------------------------------------
(* The order of name resolution: compiler.rs 113-136, 755-776 *)

\* the entries of the upvalue tables refer to the function around: tables of
\* functions nested in g index g's table where is_local is false, and a Closure
\* instruction finds the local slots and the upvalues it captures
UpvalueChain ==
    /\ program.ok =>
           /\ program.function.upvalues = << >>
           /\ \A g \in FunctionsOf(program.function) :
                  \A n \in 1..Len(g.constants) :
                      g.constants[n].t = "Function" =>
                          \A i \in 1..Len(g.constants[n].function.upvalues) :
                              \/ g.constants[n].function.upvalues[i].is_local
                              \/ g.constants[n].function.upvalues[i].index < Len(g.upvalues)
    /\ At_({"Closure"}) =>
           LET upvals == read_constant(VM, Fetch.a).function.upvalues
           IN  \A i \in 1..Len(upvals) :
                   IF upvals[i].is_local
                   THEN frame(VM).base + upvals[i].index < Len(stack)
                   ELSE upvals[i].index < Len(frame(VM).upvalues)

\* C35: a name is the innermost local of that name in the current function,
\* a compile error while that local is uninitialized; else the local of the
\* nearest enclosing function that has one, reached through the upvalue tables;
\* else a global.  A local shadows an outer variable of the same name.  The
\* resolve programs print a differently valued variable for each case
C35_ResolutionOrder ==
    /\ UpvalueChain
    /\ Family = "resolve" =>
           /\ status \notin {"error", "panic"}
           /\ status = "exit65" <=> (program = [ok |-> FALSE] /\ Expect = << >> /\ status # "start")
           /\ status = "done" => output = Expect

\* the program with shadowed locals, upvalues and globals has run to its end
C35_Witness ==
    /\ Family = "resolve"
    /\ status = "done"
    /\ output = <<"g", "j", "i", "o", "z", "o">>

-----------------------------------------------------------------------------
(* Jumps and loops: compiler.rs 1075-1092, 477-633 *)

\* the positions of f's code that hold a jump, and where it continues
Jumps(f) == {n \in 1..Len(f.code) : f.code[n].op \in {"Jump", "JumpIfFalse", "Loop"}}

\* the position (from 0) at which the jump at position n (from 1) continues
Target(f, n) ==
    IF f.code[n].op = "Loop" THEN n - f.code[n].a ELSE n + f.code[n].a

\* a jump continues at an instruction of its function: a forward jump at a
\* later one, a Loop at an earlier one
JumpsInCode(f) ==
    \A n \in Jumps(f) :
        /\ Target(f, n) \in 0..(Len(f.code) - 1)
        /\ IF f.code[n].op = "Loop" THEN Target(f, n) < n - 1 ELSE Target(f, n) >= n

\* the JumpIfFalse of a statement continues at the Pop of its condition
ExitsAtPop(f) ==
    \A n \in Jumps(f) :
        f.code[n].op = "JumpIfFalse" => f.code[Target(f, n) + 1].op = "Pop"

\* C36: every jump lands on the instruction it is meant for, and if, while,
\* do-while and for pop their condition once on every path: the stack is as
\* high after the statement as before it.  A do-while runs its body before the
\* first test, a for its increment after the body and before the next test
C36_Jumps ==
    /\ program.ok => \A f \in FunctionsOf(program.function) : JumpsInCode(f)
    /\ Family = "jump" =>
           /\ program.ok => ExitsAtPop(program.function)
           /\ \A k \in 0..Len(ScopeBody) : ScopeBoundaryAligned(k)
           /\ status \notin {"exit65", "error", "panic"}
           /\ status = "done" => output = Expect
           /\ status = "running" => IsPrefix(output, Expect)

\* a do-while whose condition is false at the first test has run its body and
\* the block is at the statement after it
C36_Witness ==
    /\ Family = "jump"
    /\ AtScopeBoundary(2)
    /\ output = <<"0">>
    /\ Executed({"Pop"})

-----------------------------------------------------------------------------
(* The line table of a chunk: src/src/frame.rs *)

MaxLine == 3

MaxCode == 4

\* the state of the driver and of the other components while one is exercised
OthersIdle ==
    /\ status = "start"
    /\ source = 1
    /\ program = [ok |-> FALSE]
    /\ stack = << >>
    /\ frames = << >>
    /\ open_upvalues = << >>
    /\ objects = << >>
    /\ modules = EmptyMap
    /\ last_module = << >>
    /\ reads = << >>
    /\ runs = << >>
    /\ output = << >>
    /\ message = ""
    /\ last = [instruction |-> NoInstruction, S |-> [status |-> "start"]]
    /\ parser = [phase |-> "idle"]
    /\ scanner = [phase |-> "idle"]
    /\ resolver = [phase |-> "idle"]

LineRecord(line, count) == [line |-> line, count |-> count]

\* Chunk::new; panicked is set by a panic of write, after which nothing is called
Chunk_new == [code |-> << >>, lines |-> << >>, panicked |-> FALSE]

push_line_record(c, line) == [c EXCEPT !.lines = Append(@, LineRecord(line, 1))]

\* a write that starts a new run for every instruction
write_new_run(c, op, line) ==
    push_line_record([c EXCEPT !.code = Append(@, op)], line)

\* Chunk::write: the instruction is pushed, then the line table is brought up
\* to date; the last arm of the match is unreachable!()
write(c, op, line) ==
    LET c1 == [c EXCEPT !.code = Append(@, op)]
    IN  IF c.lines = << >> THEN push_line_record(c1, line)
        ELSE IF Last(c.lines).line < line THEN push_line_record(c1, line)
        ELSE IF Last(c.lines).line = line
             THEN [c1 EXCEPT !.lines[Len(c.lines)].count = @ + 1]
             ELSE [c1 EXCEPT !.panicked = TRUE]

RECURSIVE find_line_records(_, _, _, _)
\* the loop 'outer of find_line over the records left; idx_counter instructions
\* belong to the records before them and found is (line_num, is_first)
find_line_records(records, idx_counter, instruction_index, found) ==
    IF records = << >>
    THEN found
    ELSE IF instruction_index < idx_counter + Head(records).count
         THEN [line |-> Head(records).line, is_first |-> instruction_index = idx_counter]
         ELSE find_line_records(Tail(records), idx_counter + Head(records).count,
                                instruction_index,
                                [line |-> Head(records).line,
                                 is_first |-> Head(records).count = 0])

\* Chunk::find_line
find_line(c, instruction_index) ==
    find_line_records(c.lines, 0, instruction_index, [line |-> 1, is_first |-> TRUE])

ChunkInit ==
    /\ chunk = [phase |-> "writing", chunk |-> Chunk_new, written |-> << >>,
                found |-> << >>]
    /\ gc = [phase |-> "idle"]
    /\ OthersIdle

\* chunk.write(op, line): written records the lines given, in order
Chunk_write ==
    /\ chunk.phase = "writing"
    /\ ~chunk.chunk.panicked
    /\ Len(chunk.chunk.code) < MaxCode
    /\ \E op \in {"Nil", "Pop"}, line \in 1..MaxLine :
           chunk' = [chunk EXCEPT !.chunk = write(@, Instr(op, 0, 0), line),
                                  !.written = Append(@, line),
                                  !.found = << >>]
    /\ UNCHANGED <<vm_vars, parser, scanner, resolver, gc>>

\* chunk.find_line(i) for an instruction of the chunk
Chunk_find_line ==
    /\ chunk.phase = "writing"
    /\ ~chunk.chunk.panicked
    /\ \E i \in 0..(Len(chunk.chunk.code) - 1) :
           chunk' = [chunk EXCEPT !.found = <<[index |-> i,
                                               result |-> find_line(chunk.chunk, i)]>>]
    /\ UNCHANGED <<vm_vars, parser, scanner, resolver, gc>>

ChunkNext == Chunk_write \/ Chunk_find_line

ChunkSpec == ChunkInit /\ [][ChunkNext]_vars

RECURSIVE SumCounts(_)
SumCounts(records) ==
    IF records = << >> THEN 0 ELSE Head(records).count + SumCounts(Tail(records))

NonDecreasing(ls) == \A i \in 1..(Len(ls) - 1) : ls[i] <= ls[i + 1]

\* C37: after writes with non-decreasing lines, find_line(i) is the line given
\* to the i-th write for every instruction i, the counts of the runs add up
\* to the length of the code, and the lines of the runs increase strictly; a
\* write with a line smaller than that of the last run is rejected by a panic
C37_LineTable ==
    chunk.phase = "writing" =>
        /\ chunk.chunk.panicked <=> ~NonDecreasing(chunk.written)
        /\ ~chunk.chunk.panicked =>
               /\ Len(chunk.chunk.code) = Len(chunk.written)
               /\ \A i \in 0..(Len(chunk.chunk.code) - 1) :
                      find_line(chunk.chunk, i).line = At(chunk.written, i)
               /\ SumCounts(chunk.chunk.lines) = Len(chunk.chunk.code)
               /\ \A n \in 1..(Len(chunk.chunk.lines) - 1) :
                      chunk.chunk.lines[n].line < chunk.chunk.lines[n + 1].line
               /\ \A n \in 1..Len(chunk.found) :
                      chunk.found[n].result.line = At(chunk.written, chunk.found[n].index)

\* the line of an instruction in the second of three runs has been found
C37_Witness ==
    /\ chunk.phase = "writing"
    /\ chunk.written = <<1, 2, 2, 3>>
    /\ chunk.found = <<[index |-> 2, result |-> [line |-> 2, is_first |-> FALSE]]>>

-----------------------------------------------------------------------------
(* The handles of a run: gc.rs 81-130, vm.rs 713-723 *)

\* ref is an occupied slot of the handle table holding an object of these kinds
Holds(ref, kinds) == ref \in 0..(Len(objects) - 1) /\ At(objects, ref).kind \in kinds

\* the module handles of a function and of the functions among its constants
FunctionLive(f) == \A g \in FunctionsOf(f) : Holds(g.module, {"Module"})

RegistriesLive(refs) == \A i \in 1..Len(refs) : Holds(refs[i], {"Open", "Closed"})

\* the handles a value holds
ValueLive(v) ==
    CASE v.t = "Class" -> Holds(v.ref, {"Class"})
      [] v.t = "Instance" -> Holds(v.ref, {"Instance"})
      [] v.t = "Function" -> FunctionLive(v.function)
      [] v.t = "Closure" -> FunctionLive(v.function) /\ RegistriesLive(v.upvalues)
      [] v.t = "BoundMethod" ->
            /\ Holds(v.receiver, {"Instance"})
            /\ FunctionLive(v.function)
            /\ RegistriesLive(v.upvalues)
      [] OTHER -> TRUE

ValuesLive(vs) == \A i \in 1..Len(vs) : ValueLive(vs[i])

MapLive(m) == \A k \in DOMAIN m : ValueLive(m[k])

FramesLive(fs) ==
    \A i \in 1..Len(fs) : FunctionLive(fs[i].function) /\ RegistriesLive(fs[i].upvalues)

\* the handles an object of the table holds
ObjectLive(obj) ==
    CASE obj.kind = "Module" -> MapLive(obj.variables)
      [] obj.kind = "Class" -> MapLive(obj.methods)
      [] obj.kind = "Instance" -> Holds(obj.class, {"Class"}) /\ MapLive(obj.fields)
      [] obj.kind = "Closed" -> ValueLive(obj.value)
      [] obj.kind = "Open" -> TRUE

\* C38: every handle a value of the run holds (on the stack, in the frames,
\* among the open upvalues, the modules, the globals, fields and methods, the
\* suspended callers) refers to an occupied slot with an object of the
\* handle's type, so every dereference finds its object; alloc appends, it
\* never hands out a slot in use
C38_HandlesLive ==
    /\ ValuesLive(stack)
    /\ FramesLive(frames)
    /\ RegistriesLive(open_upvalues)
    /\ \A k \in DOMAIN modules : Holds(modules[k], {"Module"})
    /\ \A i \in 1..Len(objects) : ObjectLive(objects[i])
    /\ \A i \in 1..Len(runs) :
           /\ FramesLive(runs[i].frames)
           /\ "stack" \in DOMAIN runs[i] => ValuesLive(runs[i].stack)
           /\ "before" \in DOMAIN runs[i] => ValuesLive(runs[i].before)
    /\ Executed({"Class", "Call", "Closure", "ImportModule"}) /\ status = "running"
           => /\ Len(objects) >= Len(Pre.objects)
              /\ \A i \in 1..Len(Pre.objects) : objects[i].kind = Pre.objects[i].kind

\* an instance was allocated while classes, a module and a registry are in use
C38_Witness ==
    /\ Executed({"Call"})
    /\ status = "running"
    /\ Len(objects) = Len(Pre.objects) + 1
    /\ Last(objects).kind = "Instance"
    /\ \E i \in 1..Len(objects) : objects[i].kind \in {"Open", "Closed"}

-----------------------------------------------------------------------------
(* The handle table: src/src/gc.rs *)

MaxObjects == 3

\* the sizes recorded for objects: obj.size() + size_of::<GcObjectHeader>()
Sizes == {1, 2}

\* Option<GcObjectHeader>: None, and Some(entry) with the size recorded
NoObject == [occupied |-> FALSE]

GcObjectHeader(size) == [occupied |-> TRUE, marked |-> FALSE, size |-> size]

\* Gc::new
Gc_new == [bytes_allocated |-> 0, free_slots |-> << >>, objects |-> << >>]

\* an alloc that takes the slot freed first
Gc_alloc_oldest(g, size) ==
    IF g.free_slots # << >>
    THEN [gc |-> [g EXCEPT !.bytes_allocated = @ + size,
                           !.free_slots = Tail(@),
                           !.objects[Head(g.free_slots) + 1] = GcObjectHeader(size)],
          index |-> Head(g.free_slots)]
    ELSE [gc |-> [g EXCEPT !.bytes_allocated = @ + size,
                           !.objects = Append(@, GcObjectHeader(size))],
          index |-> Len(g.objects)]

\* Gc::alloc: the Gc after it and the index of the handle returned
Gc_alloc(g, size) ==
    IF g.free_slots # << >>
    THEN [gc |-> [g EXCEPT !.bytes_allocated = @ + size,
                           !.free_slots = Front(@),
                           !.objects[Last(g.free_slots) + 1] = GcObjectHeader(size)],
          index |-> Last(g.free_slots)]
    ELSE [gc |-> [g EXCEPT !.bytes_allocated = @ + size,
                           !.objects = Append(@, GcObjectHeader(size))],
          index |-> Len(g.objects)]

\* Gc::free: the Gc after it, and whether it panicked with "Double free"
Gc_free(g, index) ==
    IF At(g.objects, index).occupied
    THEN [gc |-> [g EXCEPT !.bytes_allocated = @ - At(g.objects, index).size,
                           !.free_slots = Append(@, index),
                           !.objects[index + 1] = NoObject],
          panic |-> ""]
    ELSE [gc |-> g, panic |-> "Double free"]

GcInit ==
    /\ gc = [phase |-> "running", gc |-> Gc_new, handles |-> {},
             call |-> [fn |-> "new"]]
    /\ chunk = [phase |-> "idle"]
    /\ OthersIdle

\* gc.alloc(obj): the handle returned joins the handles the program holds
Gc_alloc_call ==
    /\ gc.phase = "running"
    /\ gc.gc.free_slots # << >> \/ Len(gc.gc.objects) < MaxObjects
    /\ \E size \in Sizes :
           gc' = [gc EXCEPT !.gc = Gc_alloc(@, size).gc,
                            !.handles = @ \cup {Gc_alloc(gc.gc, size).index},
                            !.call = [fn |-> "alloc", before |-> gc.gc, size |-> size,
                                      index |-> Gc_alloc(gc.gc, size).index]]
    /\ UNCHANGED <<vm_vars, parser, scanner, resolver, chunk>>

\* gc.free(r) for a handle alloc has returned, freed before or not
Gc_free_call ==
    /\ gc.phase = "running"
    /\ \E index \in gc.handles :
           gc' = [gc EXCEPT !.gc = Gc_free(@, index).gc,
                            !.phase = IF Gc_free(gc.gc, index).panic = ""
                                      THEN "running" ELSE "panicked",
                            !.call = [fn |-> "free", before |-> gc.gc, index |-> index,
                                      panic |-> Gc_free(gc.gc, index).panic]]
    /\ UNCHANGED <<vm_vars, parser, scanner, resolver, chunk>>

GcNext == Gc_alloc_call \/ Gc_free_call

GcSpec == GcInit /\ [][GcNext]_vars

\* the indices of the table whose entry is Some
Occupied(g) == {i \in 0..(Len(g.objects) - 1) : At(g.objects, i).occupied}

RECURSIVE SumSizes(_, _)
SumSizes(g, indices) ==
    IF indices = {}
    THEN 0
    ELSE LET i == CHOOSE j \in indices : TRUE
         IN  At(g.objects, i).size + SumSizes(g, indices \ {i})

\* C39: after any alloc and free calls, free_slots holds exactly the indices
\* of the empty entries, each once; alloc takes the slot freed last if there
\* is one and appends otherwise, and never returns an occupied index;
\* bytes_allocated is the sum of the sizes of the occupied entries; a free of
\* an empty entry panics with Double free and changes nothing
C39_FreeSlots ==
    gc.phase # "idle" =>
        /\ {gc.gc.free_slots[n] : n \in 1..Len(gc.gc.free_slots)}
               = (0..(Len(gc.gc.objects) - 1)) \ Occupied(gc.gc)
        /\ \A m, n \in 1..Len(gc.gc.free_slots) :
               gc.gc.free_slots[m] = gc.gc.free_slots[n] => m = n
        /\ gc.gc.bytes_allocated = SumSizes(gc.gc, Occupied(gc.gc))
        /\ gc.call.fn = "alloc" =>
               /\ gc.call.index = IF gc.call.before.free_slots # << >>
                                  THEN Last(gc.call.before.free_slots)
                                  ELSE Len(gc.call.before.objects)
               /\ gc.call.index \notin Occupied(gc.call.before)
               /\ gc.call.index \in Occupied(gc.gc)
        /\ gc.call.fn = "free" =>
               IF gc.call.index \in Occupied(gc.call.before)
               THEN gc.call.panic = "" /\ Last(gc.gc.free_slots) = gc.call.index
               ELSE gc.call.panic = "Double free" /\ gc.gc = gc.call.before
        /\ gc.phase = "panicked" <=> (gc.call.fn = "free" /\ gc.call.panic # "")

\* with two slots free, alloc has taken the one freed last
C39_Witness ==
    /\ gc.phase = "running"
    /\ gc.call.fn = "alloc"
    /\ Len(gc.call.before.free_slots) = 2
    /\ gc.call.index = Last(gc.call.before.free_slots)
    /\ gc.call.index # Head(gc.call.before.free_slots)

-----------------------------------------------------------------------------
(* The globals of a frame: vm.rs 144-152, 395-418 *)

\* the module of the function whose frame executed the last instruction
PreModule == Last(Pre.frames).function.module

\* the globals of that module before the instruction
PreGlobals == Deref(Pre, PreModule).variables

\* the handle table is as before, but for the globals of that module
OnlyGlobalsSet(variables) ==
    objects = [Pre.objects EXCEPT ![PreModule + 1].variables = variables]

====
